---- MODULE Spec2Model ----
(***************************************************************************)
(* Model of swiz's Valve (src/node_modules/swiz/lib/valve.js): validator   *)
(* chains, schema checks (check, checkPartial) and update checks           *)
(* (checkUpdate); and of its Swiz                                          *)
(* (src/node_modules/swiz/lib/serializer.js): buildObject,                 *)
(* buildObjectSync, serializeXml and deserializeXml.                       *)
(***************************************************************************)
EXTENDS Integers, Sequences, FiniteSets, TLC

(***************************************************************************)
(* Bounds of the model.                                                    *)
(***************************************************************************)
\* longest sequence of builder calls on the chain of a one-field schema
MaxChainOps == 3
\* builder calls per chain in a schema of two fields
MaxPairOps == 1
\* deepest nesting of sub-schemas
MaxDepth == 2
\* calls made on one Valve in one behaviour
MaxCalls == 2
\* builder calls on the chains of a schema given to checkUpdate
MaxUpdateOps == 2
\* builder calls on a chain with array and hash steps that is checked
MaxItemOps == 2
\* longest array offered to isArray
MaxItems == 2
\* builder calls on a chain under construction
MaxBuildOps == 3
\* longest array in a structure given to the Swiz
MaxMembers == 2
\* calls of defToValve on the same definitions
MaxCompiles == 2

(***************************************************************************)
(* JavaScript values.                                                      *)
(***************************************************************************)
NULL == "<null>"

NullV == [t |-> "null"]

Undef == [t |-> "undefined"]

NaNV == [t |-> "nan"]

Num(n) == [t |-> "num", n |-> n]

Str(s) == [t |-> "str", s |-> s]

Obj(o) == [t |-> "obj", o |-> o]

\* an Array: the sequence of its elements
Arr(a) == [t |-> "arr", a |-> a]

\* Infinity
Infinity == [t |-> "inf"]

EmptyObj == [k \in {} |-> NullV]

\* o[k] = v on a JavaScript object
Put(o, k, v) == [x \in (DOMAIN o) \cup {k} |-> IF x = k THEN v ELSE o[x]]

\* v.hasOwnProperty(k) and v[k]; both throw a TypeError on null and undefined
Throws(v) == v.t \in {"null", "undefined"}

HasOwn(v, k) == v.t = "obj" /\ k \in DOMAIN v.o

Get(v, k) == IF HasOwn(v, k) THEN v.o[k] ELSE Undef

\* the decimal strings of the model
IntOfStr ==
  ("1" :> 1) @@ ("2" :> 2) @@ ("0" :> 0) @@ ("-1" :> -1) @@ ("80" :> 80)
  @@ ("1111" :> 1111) @@ ("4444" :> 4444) @@ ("22222" :> 22222)
  @@ ("65535" :> 65535) @@ ("65536" :> 65536) @@ ("444444" :> 444444)

\* the strings of the model that begin with a decimal number and go on
IntPrefix == ("80abc" :> 80) @@ ("1.5" :> 1)

\* parseInt(value, 10): the number a string begins with, NaN when it begins
\* with none
parseInt(v) ==
  CASE v.t = "num" -> v
    [] v.t = "str" /\ v.s \in DOMAIN IntOfStr -> Num(IntOfStr[v.s])
    [] v.t = "str" /\ v.s \in DOMAIN IntPrefix -> Num(IntPrefix[v.s])
    [] OTHER -> NaNV

\* utils.typeOf
typeOf(v) ==
  CASE v.t = "null" -> "null"
    [] v.t = "undefined" -> "undefined"
    [] v.t = "str" -> "string"
    [] v.t \in {"num", "nan", "inf"} -> "number"
    [] v.t = "arr" -> "array"
    [] OTHER -> "object"

(***************************************************************************)
(* Chain: the builder calls and the step functions.                        *)
(***************************************************************************)
Chain == [validators |-> << >>, target |-> NULL, isOptional |-> FALSE,
          isImmutable |-> FALSE, isUpdateRequired |-> FALSE,
          validatorCount |-> 0, numItemsValidator |-> NullV]

pushValidator(c, name) ==
  [c EXCEPT !.validators = Append(@, [name |-> name, pos |-> c.validatorCount]),
            !.validatorCount = @ + 1]

unshiftValidator(c, name) ==
  [c EXCEPT !.validators = <<[name |-> name, pos |-> c.validatorCount]>> \o @,
            !.validatorCount = @ + 1]

\* getValidatorPos(name): the pos of the first step of that name in the
\* order of execution
getValidatorPos(c, name) ==
  LET hits == {i \in DOMAIN c.validators : c.validators[i].name = name}
  IN  IF hits = {} THEN -1
      ELSE c.validators[CHOOSE i \in hits : \A j \in hits : i <= j].pos

\* getValidatorAtPos(pos): the first step with that pos, or null
getValidatorAtPos(c, pos) ==
  LET hits == {i \in DOMAIN c.validators : c.validators[i].pos = pos}
  IN  IF hits = {} THEN NullV
      ELSE c.validators[CHOOSE i \in hits : \A j \in hits : i <= j]

\* custom(name) for a registered name: _pushValidator is given the object
\* of the registry, which has a func and a help but no name, and sets its
\* pos; a step added by an earlier custom(name) is that same object
custom(c, name) ==
  [c EXCEPT
     !.validators =
        Append([i \in DOMAIN @ |->
                  IF "custom" \in DOMAIN @[i] /\ @[i].custom = name
                  THEN [@[i] EXCEPT !.pos = c.validatorCount] ELSE @[i]],
               [name |-> NULL, pos |-> c.validatorCount, custom |-> name]),
     !.validatorCount = @ + 1]

isInt(c) == pushValidator(c, "isInt")

toInt(c) == pushValidator(c, "toInt")

isString(c) == pushValidator(c, "isString")

notEmpty(c) == pushValidator(c, "notEmpty")

\* isArray(chain): the step keeps the chain for the members
isArray(c, chain) ==
  [c EXCEPT !.validators = Append(@, [name |-> "isArray",
                                      pos |-> c.validatorCount,
                                      chain |-> chain]),
            !.validatorCount = @ + 1]

\* isHash(keyChain, valueChain)
isHash(c, keyChain, valueChain) ==
  [c EXCEPT !.validators = Append(@, [name |-> "isHash",
                                      pos |-> c.validatorCount,
                                      keyChain |-> keyChain,
                                      valueChain |-> valueChain]),
            !.validatorCount = @ + 1]

\* !max
Not(v) == v.t \in {"undefined", "null", "nan"} \/ v = Num(0)

\* a numItems that replaces an earlier constraint
numItemsReplaces(c) == FALSE

\* TRUE when numItems(min, max) throws 'Chain can only have a single
\* numItems validator'
numItemsThrows(c) == c.numItemsValidator # NullV

\* numItems(min, max) on a chain on which it does not throw
numItems(c, min, max) ==
  pushValidator([c EXCEPT !.numItemsValidator =
                    [min |-> min, max |-> IF Not(max) THEN Infinity ELSE max]],
                "numItems")

optional(c) == unshiftValidator([c EXCEPT !.isOptional = TRUE], "optional")

immutable(c) == unshiftValidator([c EXCEPT !.isImmutable = TRUE], "immutable")

updateRequired(c) ==
  unshiftValidator([c EXCEPT !.isUpdateRequired = TRUE], "updateRequired")

rename(c, target) == [c EXCEPT !.target = target]

Ok(v) == [ok |-> TRUE, v |-> v]

Err(m) == [ok |-> FALSE, msg |-> m]

RECURSIVE StringOf(_)
\* String(v): a value as a property name or in a string concatenation; a
\* member of an array that is null or undefined is written as ''
StringOf(v) ==
  CASE v.t = "str" -> v.s
    [] v.t = "num" -> ToString(v.n)
    [] v.t = "null" -> "null"
    [] v.t = "undefined" -> "undefined"
    [] v.t = "nan" -> "NaN"
    [] v.t = "inf" -> "Infinity"
    [] v.t = "arr" ->
         LET member(x) == IF Throws(x) THEN "" ELSE StringOf(x)
         IN  CASE Len(v.a) = 0 -> ""
               [] Len(v.a) = 1 -> member(v.a[1])
               [] OTHER -> member(v.a[1]) \o "," \o StringOf(Arr(Tail(v.a)))
    [] OTHER -> "[object Object]"

\* the map of the enumerated steps and fields of the model, as the sequence
\* of its [k, v] pairs in for-in order
EnumMap ==
  << [k |-> "inactive", v |-> Num(0)], [k |-> "active", v |-> Num(1)] >>

\* enumerated(map) on a chain
enumerated(c) == pushValidator(c, "enumerated")

\* the func of an enumerated step: map.hasOwnProperty(value) takes the value
\* as a property name
enumeratedFunc(value) ==
  LET hits == {i \in DOMAIN EnumMap : EnumMap[i].k = StringOf(value)}
      RECURSIVE join(_)
      join(i) == IF i = Len(EnumMap) THEN EnumMap[i].k
                 ELSE EnumMap[i].k \o ", " \o join(i + 1)
  IN  IF hits # {} THEN Ok(EnumMap[CHOOSE i \in hits : TRUE].v)
      ELSE Err("Invalid value '" \o StringOf(value)
               \o "'. Should be one of (" \o join(1) \o ").")

\* a numItems step that itself refuses a container without items
numItemsFuncChecksSize(value) ==
  IF value = Arr(<< >>) \/ value = Obj(EmptyObj)
  THEN Err("Object needs to have between 1 and Infinity items")
  ELSE Ok(value)

\* the func of the numItems step: callback(null, value)
numItemsFunc(value) == Ok(value)

\* what a synchronous call gives: a value returned or an exception
Returned(value) == [throw |-> FALSE, value |-> value]

Raised == [throw |-> TRUE, value |-> Undef]

\* validators.isPort(value, baton): the value returned, or the exception; a
\* comparison with NaN is false
validatorsIsPort(value) ==
  LET port == parseInt(value)
  IN  IF port.t = "num" /\ (port.n < 1 \/ port.n > 65535) THEN Raised
      ELSE Returned(port)

isPort(c) == pushValidator(c, "isPort")

\* the func of the isPort step
isPortFunc(value) ==
  IF validatorsIsPort(value).throw THEN Err("Value out of range [1,65535]")
  ELSE Ok(validatorsIsPort(value).value)

\* value.lastIndexOf(':') and the two slices, for the strings of the model
\* that hold a colon
SplitPair ==
  LET at(ip, port) == (ip \o ":" \o port) :> [ip |-> ip, port |-> port]
  IN  at("192.168.0.1", "1111") @@ at("::1", "22222") @@ at("a.b", "4444")
      @@ at("127.0.0.1", "444444") @@ at("127.0.0.1", "0")
      @@ at("127.0.0.1", "65535") @@ at("127.0.0.1", "65536")
      @@ at("127.0.0.1", "abc") @@ at("127.0.0.1", "") @@ at("127.0.0.1", "80abc")

\* normalizeIP for the addresses of the model that ipv4.Address or
\* ipv6.Address finds valid
NormalIP ==
  ("192.168.0.1" :> "192.168.0.1") @@ ("127.0.0.1" :> "127.0.0.1")
  @@ ("::1" :> "0000:0000:0000:0000:0000:0000:0000:0001")

isAddressPair(c) == pushValidator(c, "isAddressPair")

\* the func of the isAddressPair step, for a string
isAddressPairFunc(value) ==
  CASE value.s \notin DOMAIN SplitPair ->
         Err("Missing semicolon (:) Address must be in the following "
             \o "format - ip:port")
    [] value.s \in DOMAIN SplitPair
         /\ SplitPair[value.s].ip \notin DOMAIN NormalIP ->
         Err("IP address in the address pair is not valid")
    [] value.s \in DOMAIN SplitPair
         /\ SplitPair[value.s].ip \in DOMAIN NormalIP
         /\ validatorsIsPort(Str(SplitPair[value.s].port)).throw ->
         Err("Port in the address pair is out of range [1,65535]")
    [] OTHER ->
         Ok(Str(NormalIP[SplitPair[value.s].ip] \o ":"
                \o StringOf(validatorsIsPort(Str(SplitPair[value.s].port)).value)))

\* a step whose func returns without ever invoking its callback
never(c) == pushValidator(c, "never")

\* what such a step reports: nothing
Never == [ok |-> FALSE, msg |-> NULL]

\* the func registered as 'isMeaningOfLife': value == 42
isMeaningOfLife(value) ==
  IF value \in {Num(42), Str("42")} THEN Ok(Str("forty-two"))
  ELSE Err("incorrect value")

\* the func of a step, applied to a value: callback(null, v) or callback(msg);
\* a step without a name is the object of the registry, added by custom()
func(name, value) ==
  CASE name = "isInt" ->
         IF value.t = "num" \/ (value.t = "str" /\ value.s \in DOMAIN IntOfStr)
         THEN Ok(value) ELSE Err("Invalid integer")
    [] name = "toInt" -> Ok(parseInt(value))
    [] name = "isString" ->
         IF typeOf(value) # "string" THEN Err("Not a string") ELSE Ok(value)
    [] name = "notEmpty" ->
         IF value.t \in {"null", "undefined", "nan"} \/ value = Str("")
         THEN Err("String is empty") ELSE Ok(value)
    [] name = "numItems" -> numItemsFunc(value)
    [] name = "enumerated" -> enumeratedFunc(value)
    [] name = NULL -> isMeaningOfLife(value)
    [] name = "isPort" -> isPortFunc(value)
    [] name = "never" -> Never
    [] name = "isAddressPair" -> isAddressPairFunc(value)
    [] OTHER -> Ok(value)

(***************************************************************************)
(* Schemas: a schema is the sequence of its fields in Object.keys order;   *)
(* the value of a field is a Chain or a sub-schema.                        *)
(***************************************************************************)
ChainNode(c) == [kind |-> "chain", chain |-> c]

SubNode(fields) == [kind |-> "schema", fields |-> fields]

Field(k, n) == [key |-> k, val |-> n]

ChainOps == {"isInt", "toInt", "isString", "optional", "immutable",
             "updateRequired", "rename"}

\* the rename target of the model; it is also the one key an input can have
\* that no schema declares
OtherKey == "t"

ApplyOp(c, op) ==
  CASE op = "isInt" -> isInt(c)
    [] op = "toInt" -> toInt(c)
    [] op = "isString" -> isString(c)
    [] op = "optional" -> optional(c)
    [] op = "immutable" -> immutable(c)
    [] op = "updateRequired" -> updateRequired(c)
    [] OTHER -> rename(c, OtherKey)

RECURSIVE ChainsOfOps(_)
\* the chains built by exactly n builder calls
ChainsOfOps(n) ==
  IF n = 0 THEN {Chain}
  ELSE {ApplyOp(c, op) : c \in ChainsOfOps(n - 1), op \in ChainOps}

ChainsUpTo(n) == UNION {ChainsOfOps(k) : k \in 0..n}

OneFieldSchemas ==
  {<<Field("a", ChainNode(c))>> : c \in ChainsUpTo(MaxChainOps)}

TwoFieldSchemas ==
  UNION {{<<Field("a", ChainNode(c1)), Field("b", ChainNode(c2))>> :
            c1 \in ChainsOfOps(k), c2 \in ChainsUpTo(MaxPairOps - k)} :
         k \in 0..MaxPairOps}

RECURSIVE Nest(_, _)
\* s wrapped in d sub-schemas under key "a"
Nest(s, d) == IF d = 0 THEN s ELSE Nest(<<Field("a", SubNode(s))>>, d - 1)

RECURSIVE NestedSchemas(_)
\* schemas of depth 1..d: a chain of sub-schemas around one isInt field, and
\* at most one more isInt field, before or after a sub-schema
NestedSchemas(d) ==
  IF d = 0 THEN {}
  ELSE LET leaf == ChainNode(isInt(Chain))
           inner == <<Field("a", leaf)>>
           pair == <<Field("a", leaf), Field("b", leaf)>>
       IN  NestedSchemas(d - 1)
           \cup {Nest(inner, d), Nest(pair, d)}
           \cup {Nest(<<Field("a", SubNode(Nest(inner, d - k))),
                        Field("b", leaf)>>, k - 1) : k \in 1..d}
           \cup {Nest(<<Field("b", leaf),
                        Field("a", SubNode(Nest(inner, d - k)))>>, k - 1) :
                 k \in 1..d}

Schemas == OneFieldSchemas \cup TwoFieldSchemas \cup NestedSchemas(MaxDepth)

ScalarInputs == {NullV, Str("1"), Str("x")}

\* all objects with keys in ks whose value for k is in vals[k]
ObjectsOver(ks, vals) ==
  UNION {{o \in [sub -> UNION {vals[k] : k \in sub}] :
            \A k \in sub : o[k] \in vals[k]} : sub \in SUBSET ks}

KeysOf(fields) == {fields[i].key : i \in DOMAIN fields}

\* schema[key]
NodeOf(fields, k) == fields[CHOOSE i \in DOMAIN fields : fields[i].key = k].val

RECURSIVE InputsFor(_)
\* the input objects offered to a schema: every schema key is absent or has
\* a scalar (chain field), or null or an object (sub-schema field)
InputsFor(fields) ==
  ObjectsOver(KeysOf(fields),
      [k \in KeysOf(fields) |->
          IF NodeOf(fields, k).kind = "chain" THEN ScalarInputs
          ELSE {NullV} \cup {Obj(o) : o \in InputsFor(NodeOf(fields, k).fields)}])

TopInputs(fields) ==
  InputsFor(fields) \cup {Put(o, OtherKey, Str("u")) : o \in InputsFor(fields)}

(***************************************************************************)
(* State.                                                                  *)
(***************************************************************************)
VARIABLES
  schema,          \* Valve.schema
  finalValidator,  \* TRUE when addFinalValidator registered a function
  obj,             \* the caller's input object (the partial object of checkUpdate)
  existing,        \* the caller's existing object of checkUpdate
  call,            \* the call in progress: operation and options.strict
  stack,           \* the active checkSchema invocations, outermost first
  parentKeys,      \* the parentKeys array created by the call
  memo,            \* checkChain: the value handed to the next step
  stepIdx,         \* checkChain: index of the next step in chain.validators
  cleaned,         \* the object handed to the final validator
  log,             \* step functions and final validator invoked by the call
  result,          \* what the call delivered: callback arguments or a throw
  prev,            \* operation and result of the previous call
  calls,           \* number of calls started
  baton,           \* Valve.baton
  inner,           \* isArray, isHash: the member checks of the step in progress
  swiz,            \* Swiz: the structure given, built, serialized and parsed
  customValidators, \* the registry of Valve.addChainValidator, by name
  pc

vars == <<schema, finalValidator, obj, existing, call, stack, parentKeys, memo,
          stepIdx, cleaned, log, result, prev, calls, baton, inner, swiz,
          customValidators, pc>>

NoCall == [op |-> NULL, strict |-> FALSE]

NoResult == [kind |-> "none"]

NoErr == [t |-> "null"]

Callback(err, value) == [kind |-> "callback", err |-> err, cleaned |-> value]

Thrown == [kind |-> "throw"]

ErrorRecord(key, pk, message) ==
  [key |-> key, parentKeys |-> pk, message |-> message]

MissingKey(key) == "Missing required key (" \o key \o ")"

Frame(o, fields, key, b) ==
  [obj |-> o, fields |-> fields, i |-> 1, cleanedObj |-> EmptyObj, key |-> key,
   baton |-> b]

NoInner == [results |-> << >>, pending |-> {}]

\* the registry after Valve.addChainValidator('isMeaningOfLife', description,
\* func): the object kept under the name has a func and a help; custom()
\* gives it a pos
Registered ==
  ("isMeaningOfLife" :> [help |-> "Is the meaning of life", pos |-> Undef])

\* Swiz: a result not computed yet
Pending == [pending |-> TRUE]

\* a Field definition, struct.Field(name, options); enumerated is the
\* sequence of the [k, v] pairs of options.enumerated in for-in order
F(name, src, attribute, singular, plural, map) ==
  [name |-> name, src |-> src, attribute |-> attribute, singular |-> singular,
   plural |-> plural, enumerated |-> map, coerceTo |-> NULL,
   filterFrom |-> {}, val |-> NullV, ignorePublic |-> FALSE]

\* an Object definition, struct.Obj(name, options)
O(name, singular, plural, fields) ==
  [name |-> name, singular |-> singular, plural |-> plural, fields |-> fields]

\* the definitions registered with the Swiz, in registration order
SwizDefs ==
  << O("Node", "node", "nodes",
       << F("id", "hash_id", TRUE, "id", "id", << >>),
          F("state", NULL, FALSE, "state", "state", EnumMap),
          F("tags", NULL, FALSE, "tag", "tags", << >>),
          F("opts", "options", FALSE, "opts", "opts", << >>),
          F("children", NULL, FALSE, "child", "children", << >>) >>),
     O("NodeOpts", "nodeOpts", "nodeOptsList",
       << F("option1", "opt1", FALSE, "option1", "option1", << >>) >>) >>

\* function Swiz(defs, options): this._defs[o.name] = o for each definition
\* given, kept as the sequence of the keys of this._defs with their values
Swiz(defs) == [i \in DOMAIN defs |-> [key |-> defs[i].name, def |-> defs[i]]]

NoSwiz ==
  [x |-> Undef, defs |-> Swiz(SwizDefs), built |-> Pending, sync |-> Pending,
   xml |-> Pending, parsed |-> Pending, out |-> Pending, paged |-> Pending,
   raw |-> Undef, back |-> Pending]

Top == stack[Len(stack)]

\* the keys of the sub-schemas that enclose the fields of the innermost frame
Path == [j \in 1..(Len(stack) - 1) |-> stack[j + 1].key]

NoPrev == [op |-> NULL, strict |-> FALSE, result |-> NoResult, log |-> << >>]

InitValve(schemas) ==
  /\ schema \in schemas
  /\ finalValidator \in BOOLEAN
  /\ obj \in TopInputs(schema)
  /\ existing = EmptyObj
  /\ call = NoCall
  /\ stack = << >>
  /\ parentKeys = << >>
  /\ memo = Undef
  /\ stepIdx = 0
  /\ cleaned = Undef
  /\ log = << >>
  /\ result = NoResult
  /\ prev = NoPrev
  /\ calls = 0
  /\ baton = Str("aBaton")
  /\ inner = NoInner
  /\ swiz = NoSwiz
  /\ customValidators = Registered
  /\ pc = "idle"

Init == InitValve(Schemas)

(***************************************************************************)
(* check, checkPartial, checkSchema and checkChain.                        *)
(***************************************************************************)
StepEvent(path, key, step, value, b) ==
  [ev |-> "step", path |-> path, key |-> key, name |-> step.name,
   pos |-> step.pos, value |-> value, baton |-> b]

\* the callback of checkChain, invoked with res
ChainEvent(path, key, res) ==
  [ev |-> "chain", path |-> path, key |-> key, res |-> res]

\* the iterator of checkSchema reports err for a field
ErrorEvent(path, key, err) ==
  [ev |-> "error", path |-> path, key |-> key, err |-> err]

FinalEvent(value) == [ev |-> "final", value |-> value]

NotAllowed(key) == [key |-> key, message |-> "This key is not allowed"]

\* the own keys of the input that the schema does not have
UnknownKeys(o, fields) == {k \in DOMAIN o : k \notin KeysOf(fields)}

\* a call starts: the state every entry point sets up
Enter(op, strict) ==
  /\ pc = "idle"
  /\ calls < MaxCalls
  /\ call' = [op |-> op, strict |-> strict]
  /\ calls' = calls + 1
  /\ log' = << >>
  /\ parentKeys' = << >>
  /\ memo' = Undef
  /\ stepIdx' = 0
  /\ UNCHANGED <<schema, finalValidator, baton, swiz, customValidators, inner,
                 obj, prev>>

\* a check that ignores options.strict
StrictIgnored(strict, o, fields) == FALSE

\* the strict test of check: TRUE when the call is rejected
StrictRejects(strict, o, fields) == strict /\ UnknownKeys(o, fields) # {}

check(strict) ==
  /\ Enter("check", strict)
  /\ cleaned' = Undef
  /\ UNCHANGED existing
  /\ IF StrictRejects(strict, obj, schema)
     THEN /\ \E k \in UnknownKeys(obj, schema) :
                result' = Callback(NotAllowed(k), Undef)
          /\ stack' = << >>
          /\ pc' = "done"
     ELSE /\ result' = NoResult
          /\ stack' = <<Frame(Obj(obj), schema, NULL, baton)>>
          /\ pc' = "reduce"

checkPartial ==
  /\ Enter("checkPartial", FALSE)
  /\ cleaned' = Undef
  /\ UNCHANGED existing
  /\ result' = NoResult
  /\ stack' = <<Frame(Obj(obj), schema, NULL, baton)>>
  /\ pc' = "reduce"

isPartial == call.op = "checkPartial"

CurKey == Top.fields[Top.i].key

CurNode == Top.fields[Top.i].val

InIterator == pc = "reduce" /\ Top.i <= Len(Top.fields)

\* an iterator without the test for an optional key that is null
BranchNoNull(o, k, n, partial) ==
  LET isChain == n.kind = "chain"
      isOptional == isChain /\ n.chain.isOptional
      isUpdateRequired == isChain /\ n.chain.isUpdateRequired
  IN  IF Throws(o) THEN "throw"
      ELSE IF HasOwn(o, k) THEN (IF isChain THEN "chain" ELSE "schema")
      ELSE IF (partial /\ ~isUpdateRequired) \/ isOptional THEN "skip"
      ELSE "missing"

\* an iterator that skips every missing key of a partial check
BranchNoUpdateRequired(o, k, n, partial) ==
  LET isChain == n.kind = "chain"
      isOptional == isChain /\ n.chain.isOptional
  IN  IF Throws(o) THEN "throw"
      ELSE IF isOptional /\ Get(o, k) = NullV THEN "null"
      ELSE IF HasOwn(o, k) THEN (IF isChain THEN "chain" ELSE "schema")
      ELSE IF partial \/ isOptional THEN "skip"
      ELSE "missing"

\* the branch the iterator of checkSchema takes for key k of schema node n
Branch(o, k, n, partial) ==
  LET isChain == n.kind = "chain"
      isOptional == isChain /\ n.chain.isOptional
      isUpdateRequired == isChain /\ n.chain.isUpdateRequired
  IN  IF Throws(o) THEN "throw"
      ELSE IF isOptional /\ Get(o, k) = NullV THEN "null"
      ELSE IF HasOwn(o, k) THEN (IF isChain THEN "chain" ELSE "schema")
      ELSE IF (partial /\ ~isUpdateRequired) \/ isOptional THEN "skip"
      ELSE "missing"

CurBranch == Branch(Top.obj, CurKey, CurNode, isPartial)

\* reduceCallback(null, cleanedObj) of the innermost frame
Advance(co) ==
  stack' = [stack EXCEPT ![Len(stack)] = [@ EXCEPT !.i = @ + 1, !.cleanedObj = co]]

\* a reduce that hands every step the value the chain was applied to
reduceMemoFirst(m, res) == m

\* the value async.reduce hands to the next step when a step passed res
reduceMemo(m, res) == res.v

\* a reduce that delivers the error and goes on with the next key
FailContinue(err, events) ==
  /\ result' = Callback(err, Undef)
  /\ log' = log \o events \o <<ErrorEvent(Path, CurKey, err)>>
  /\ stack' = [stack EXCEPT ![Len(stack)] = [@ EXCEPT !.i = @ + 1]]
  /\ memo' = Undef
  /\ stepIdx' = 0
  /\ pc' = "reduce"

\* the iterator reports err: async.reduce stops, every enclosing checkSchema
\* passes the error on and it reaches the callback of the call
Fail(err, events) ==
  /\ result' = Callback(err, Undef)
  /\ log' = log \o events \o <<ErrorEvent(Path, CurKey, err)>>
  /\ stack' = << >>
  /\ memo' = Undef
  /\ stepIdx' = 0
  /\ pc' = "done"

iteratorThrow ==
  /\ InIterator
  /\ CurBranch = "throw"
  /\ result' = Thrown
  /\ stack' = << >>
  /\ pc' = "thrown"
  /\ UNCHANGED <<schema, finalValidator, baton, swiz, customValidators, inner,
                 obj, existing, call, parentKeys, memo,
                 stepIdx, cleaned, log, prev, calls>>

iteratorNull ==
  /\ InIterator
  /\ CurBranch = "null"
  /\ Advance(Put(Top.cleanedObj, CurKey, NullV))
  /\ UNCHANGED <<schema, finalValidator, baton, swiz, customValidators, inner,
                 obj, existing, call, parentKeys, memo,
                 stepIdx, cleaned, log, result, prev, calls, pc>>

iteratorChain ==
  /\ InIterator
  /\ CurBranch = "chain"
  /\ memo' = Get(Top.obj, CurKey)
  /\ stepIdx' = 1
  /\ pc' = "chain"
  /\ UNCHANGED <<schema, finalValidator, baton, swiz, customValidators, inner,
                 obj, existing, call, stack, parentKeys,
                 cleaned, log, result, prev, calls>>

iteratorSchema ==
  /\ InIterator
  /\ CurBranch = "schema"
  /\ parentKeys' = Append(parentKeys, CurKey)
  /\ stack' = Append(stack, Frame(Get(Top.obj, CurKey), CurNode.fields, CurKey,
                               Top.baton))
  /\ UNCHANGED <<schema, finalValidator, baton, swiz, customValidators, inner,
                 obj, existing, call, memo, stepIdx,
                 cleaned, log, result, prev, calls, pc>>

iteratorSkip ==
  /\ InIterator
  /\ CurBranch = "skip"
  /\ Advance(Top.cleanedObj)
  /\ UNCHANGED <<schema, finalValidator, baton, swiz, customValidators, inner,
                 obj, existing, call, parentKeys, memo,
                 stepIdx, cleaned, log, result, prev, calls, pc>>

iteratorMissing ==
  /\ InIterator
  /\ CurBranch = "missing"
  /\ Fail(ErrorRecord(CurKey, parentKeys, MissingKey(CurKey)), << >>)
  /\ UNCHANGED <<schema, finalValidator, baton, swiz, customValidators, inner,
                 obj, existing, call, parentKeys,
                 cleaned, prev, calls>>

\* the steps whose func runs checkChain on the members of the value
ContainerSteps == {"isArray", "isHash"}

\* checkChain invokes the next step of the chain
validator ==
  /\ pc = "chain"
  /\ stepIdx <= Len(CurNode.chain.validators)
  /\ CurNode.chain.validators[stepIdx].name \notin ContainerSteps
  /\ func(CurNode.chain.validators[stepIdx].name, memo) # Never
  /\ LET step == CurNode.chain.validators[stepIdx]
         res == func(step.name, memo)
         ev == StepEvent(Path, CurKey, step, memo, Top.baton)
     IN  IF res.ok
         THEN /\ memo' = reduceMemo(memo, res)
              /\ stepIdx' = stepIdx + 1
              /\ log' = Append(log, ev)
              /\ UNCHANGED <<stack, result, pc>>
         ELSE Fail(ErrorRecord(CurKey, parentKeys, res.msg),
                   <<ev, ChainEvent(Path, CurKey, res)>>)
  /\ UNCHANGED <<schema, finalValidator, baton, swiz, customValidators, inner,
                 obj, existing, call, parentKeys,
                 cleaned, prev, calls>>

\* the key under which the iterator stores the result of a chain
CleanedKey(key, chain) == IF chain.target # NULL THEN chain.target ELSE key

\* every step has passed: the callback of checkChain stores the value
chainDone ==
  /\ pc = "chain"
  /\ stepIdx > Len(CurNode.chain.validators)
  /\ Advance(Put(Top.cleanedObj, CleanedKey(CurKey, CurNode.chain), memo))
  /\ log' = Append(log, ChainEvent(Path, CurKey, Ok(memo)))
  /\ memo' = Undef
  /\ stepIdx' = 0
  /\ pc' = "reduce"
  /\ UNCHANGED <<schema, finalValidator, baton, swiz, customValidators, inner,
                 obj, existing, call, parentKeys,
                 cleaned, result, prev, calls>>

\* a nested checkSchema has run through its keys
subSchemaDone ==
  /\ pc = "reduce"
  /\ Top.i > Len(Top.fields)
  /\ Len(stack) > 1
  /\ LET parent == stack[Len(stack) - 1]
     IN  stack' = Append(SubSeq(stack, 1, Len(stack) - 2),
                    [parent EXCEPT !.i = @ + 1,
                       !.cleanedObj = Put(@, Top.key, Obj(Top.cleanedObj))])
  /\ UNCHANGED <<schema, finalValidator, baton, swiz, customValidators, inner,
                 obj, existing, call, parentKeys, memo,
                 stepIdx, cleaned, log, result, prev, calls, pc>>

\* a Valve that runs the final validator after every checkSchema
RunsFinalAlways(op, registered) == registered

\* a check that never runs the final validator
RunsFinalNever(op, registered) == FALSE

\* TRUE when the callback of checkSchema hands the object to a final validator
RunsFinal(op, registered) == op = "check" /\ registered

\* the outermost checkSchema has run through its keys
checkSchemaDone ==
  /\ pc = "reduce"
  /\ Top.i > Len(Top.fields)
  /\ Len(stack) = 1
  /\ stack' = << >>
  /\ IF RunsFinal(call.op, finalValidator)
     THEN /\ cleaned' = Obj(Top.cleanedObj)
          /\ pc' = "final"
          /\ UNCHANGED result
     ELSE /\ result' = Callback(NoErr, Obj(Top.cleanedObj))
          /\ pc' = "done"
          /\ UNCHANGED cleaned
  /\ UNCHANGED <<schema, finalValidator, baton, swiz, customValidators, inner,
                 obj, existing, call, parentKeys, memo,
                 stepIdx, log, prev, calls>>

FinalError == [key |-> "a", parentKeys |-> << >>, message |-> "final"]

ErrorInstance == [t |-> "Error"]

\* what a final validator can pass to its callback for the object c
FinalOutcomes(c) ==
  {[err |-> NoErr, value |-> c],
   [err |-> NoErr, value |-> Obj(Put(c.o, "f", Str("1")))],
   [err |-> FinalError, value |-> Undef],
   [err |-> ErrorInstance, value |-> Undef]}

finalValidate ==
  /\ pc = "final"
  /\ log' = Append(log, FinalEvent(cleaned))
  /\ \E out \in FinalOutcomes(cleaned) :
       IF out.err = ErrorInstance
       THEN result' = Thrown /\ pc' = "thrown"
       ELSE result' = Callback(out.err, out.value) /\ pc' = "done"
  /\ UNCHANGED <<schema, finalValidator, baton, swiz, customValidators, inner,
                 obj, existing, call, stack, parentKeys,
                 memo, stepIdx, cleaned, prev, calls>>

Next ==
  \/ \E strict \in BOOLEAN : check(strict)
  \/ checkPartial
  \/ iteratorThrow
  \/ iteratorNull
  \/ iteratorChain
  \/ iteratorSchema
  \/ iteratorSkip
  \/ iteratorMissing
  \/ validator
  \/ chainDone
  \/ subSchemaDone
  \/ checkSchemaDone
  \/ finalValidate

Spec == Init /\ [][Next]_vars

\* the callback has been invoked (or the call has thrown) and the caller
\* goes on to make another call on the same Valve with the same input
Return ==
  /\ pc \in {"done", "thrown"}
  /\ calls < MaxCalls
  /\ prev' = [op |-> call.op, strict |-> call.strict, result |-> result,
              log |-> log]
  /\ call' = NoCall
  /\ result' = NoResult
  /\ log' = << >>
  /\ parentKeys' = << >>
  /\ cleaned' = Undef
  /\ pc' = "idle"
  /\ UNCHANGED <<schema, finalValidator, baton, swiz, customValidators, inner,
                 obj, existing, stack, memo, stepIdx,
                 calls>>

NextRepeat == Next \/ Return

SpecRepeat == Init /\ [][NextRepeat]_vars

TypeOK ==
  pc \in {"idle", "reduce", "chain", "map", "hash", "final", "done", "thrown",
         "build", "compile", "defer"}

(***************************************************************************)
(* isArray, isHash and numItems.                                           *)
(***************************************************************************)
\* value.length of an array, Object.keys(value).length of an object
NumberOfItems(v) == IF v.t = "arr" THEN Len(v.a) ELSE Cardinality(DOMAIN v.o)

\* a number in a string concatenation
NumberString(v) == IF v = Infinity THEN "Infinity" ELSE ToString(v.n)

\* len < min || len > max
OutOfRange(len, min, max) == len < min.n \/ (max # Infinity /\ len > max.n)

NumItemsMessage(min, max) ==
  "Object needs to have between " \o NumberString(min) \o " and "
    \o NumberString(max) \o " items"

\* a size test that ignores the upper bound
validateNumItemsMinOnly(c, value) ==
  IF c.numItemsValidator = NullV THEN Ok(value)
  ELSE IF NumberOfItems(value) < c.numItemsValidator.min.n
       THEN Err(NumItemsMessage(c.numItemsValidator.min,
                                c.numItemsValidator.max))
       ELSE Ok(value)

\* Chain.prototype._validateNumItems: Ok, or Err with the message of the
\* Error that validators.numItems throws
validateNumItems(c, value) ==
  IF c.numItemsValidator = NullV THEN Ok(value)
  ELSE IF OutOfRange(NumberOfItems(value), c.numItemsValidator.min,
                     c.numItemsValidator.max)
       THEN Err(NumItemsMessage(c.numItemsValidator.min,
                                c.numItemsValidator.max))
       ELSE Ok(value)

RECURSIVE RunSteps(_, _)
\* checkChain on a chain of steps that call back at once: the result, and
\* the steps invoked with the value each one received
RunSteps(steps, value) ==
  IF steps = << >> THEN [res |-> Ok(value), steps |-> << >>]
  ELSE LET r == func(steps[1].name, value)
           here == [name |-> steps[1].name, pos |-> steps[1].pos,
                    value |-> value]
       IN  IF ~r.ok THEN [res |-> r, steps |-> <<here>>]
           ELSE LET rest == RunSteps(Tail(steps), reduceMemo(value, r))
                IN  [res |-> rest.res, steps |-> <<here>> \o rest.steps]

\* a baton that is not handed on to the member checks
MemberBatonDropped(b) == Undef

\* the baton checkChain gets for a member of an array or hash
MemberBaton(b) == b

\* the steps of a member check as events: part is "member", "key" or
\* "value", at is the index or the key of the member
ItemEvents(path, key, part, at, steps, b) ==
  [j \in DOMAIN steps |->
     [ev |-> "item", path |-> path, key |-> key, part |-> part, at |-> at,
      name |-> steps[j].name, pos |-> steps[j].pos, value |-> steps[j].value,
      baton |-> MemberBaton(b)]]

CurStep == CurNode.chain.validators[stepIdx]

ContainerStep(name) ==
  /\ pc = "chain"
  /\ stepIdx <= Len(CurNode.chain.validators)
  /\ CurStep.name = name

\* the func of an isArray step, up to the call of async.map
isArrayFunc ==
  /\ ContainerStep("isArray")
  /\ LET ev == StepEvent(Path, CurKey, CurStep, memo, Top.baton)
         res == IF typeOf(memo) # "array" THEN Err("Not an array")
                ELSE validateNumItems(CurNode.chain, memo)
     IN  IF res.ok
         THEN /\ log' = Append(log, ev)
              /\ inner' = [results |-> [i \in 1..Len(memo.a) |-> Undef],
                           pending |-> 1..Len(memo.a)]
              /\ pc' = "map"
              /\ UNCHANGED <<stack, result, memo, stepIdx>>
         ELSE /\ Fail(ErrorRecord(CurKey, parentKeys, res.msg),
                      <<ev, ChainEvent(Path, CurKey, res)>>)
              /\ UNCHANGED inner
  /\ UNCHANGED <<schema, finalValidator, baton, swiz, customValidators, obj, existing, call,
                 parentKeys, cleaned, prev, calls>>

\* results stored in the order in which the member checks complete
MapStoreInCompletionOrder(results, i, v, completed) ==
  [results EXCEPT ![completed + 1] = v]

\* async.map: results[x.index] = v
MapStore(results, i, v, completed) == [results EXCEPT ![i] = v]

\* the check of one member of the array completes; the members complete in
\* any order, and a member whose chain holds a step that never calls back
\* does not complete
mapIterator ==
  /\ pc = "map"
  /\ \E i \in {j \in inner.pending :
                  RunSteps(CurStep.chain.validators, memo.a[j]).res # Never} :
       LET r == RunSteps(CurStep.chain.validators, memo.a[i])
           evs == ItemEvents(Path, CurKey, "member", i, r.steps, Top.baton)
           completed == Len(memo.a) - Cardinality(inner.pending)
       IN  IF r.res.ok
           THEN /\ inner' = [results |-> MapStore(inner.results, i, r.res.v,
                                                  completed),
                             pending |-> inner.pending \ {i}]
                /\ log' = log \o evs
                /\ UNCHANGED <<stack, result, memo, stepIdx, pc>>
           ELSE /\ Fail(ErrorRecord(CurKey, parentKeys, r.res.msg),
                        evs \o <<ChainEvent(Path, CurKey, r.res)>>)
                /\ inner' = NoInner
  /\ UNCHANGED <<schema, finalValidator, baton, swiz, customValidators, obj, existing, call,
                 parentKeys, cleaned, prev, calls>>

\* every member check has completed: async.map hands the results to the
\* callback of the step
mapCallback ==
  /\ pc = "map"
  /\ inner.pending = {}
  /\ memo' = Arr(inner.results)
  /\ stepIdx' = stepIdx + 1
  /\ inner' = NoInner
  /\ pc' = "chain"
  /\ UNCHANGED <<schema, finalValidator, baton, swiz, customValidators, obj, existing, call, stack,
                 parentKeys, cleaned, log, result, prev, calls>>

\* the func of an isHash step, up to the call of async.reduce
isHashFunc ==
  /\ ContainerStep("isHash")
  /\ LET ev == StepEvent(Path, CurKey, CurStep, memo, Top.baton)
         res == IF typeOf(memo) # "object" THEN Err("Not a hash")
                ELSE validateNumItems(CurNode.chain, memo)
     IN  IF res.ok
         THEN /\ log' = Append(log, ev)
              /\ inner' = [results |-> EmptyObj, pending |-> DOMAIN memo.o]
              /\ pc' = "hash"
              /\ UNCHANGED <<stack, result, memo, stepIdx>>
         ELSE /\ Fail(ErrorRecord(CurKey, parentKeys, res.msg),
                      <<ev, ChainEvent(Path, CurKey, res)>>)
              /\ UNCHANGED inner
  /\ UNCHANGED <<schema, finalValidator, baton, swiz, customValidators, obj, existing, call,
                 parentKeys, cleaned, prev, calls>>

KeyMessage(key, err) == "Key " \o key \o ": " \o err

ValueMessage(key, err) == "Value for key '" \o key \o "': " \o err

\* an iterator that checks the keys only
hashPairKeysOnly(key, value, keyChain, valueChain) ==
  LET kr == RunSteps(keyChain.validators, Str(key))
  IN  IF ~kr.res.ok
      THEN [res |-> Err(KeyMessage(key, kr.res.msg)), key |-> kr.steps,
            value |-> << >>]
      ELSE [res |-> Ok(value), name |-> StringOf(kr.res.v),
            key |-> kr.steps, value |-> << >>]

\* the iterator of isHash on one pair: the key chain, then the value chain
hashPair(key, value, keyChain, valueChain) ==
  LET kr == RunSteps(keyChain.validators, Str(key))
      vr == RunSteps(valueChain.validators, value)
  IN  IF ~kr.res.ok
      THEN [res |-> Err(KeyMessage(key, kr.res.msg)), key |-> kr.steps,
            value |-> << >>]
      ELSE IF ~vr.res.ok
           THEN [res |-> Err(ValueMessage(key, vr.res.msg)), key |-> kr.steps,
                 value |-> vr.steps]
           ELSE [res |-> Ok(vr.res.v), name |-> StringOf(kr.res.v),
                 key |-> kr.steps, value |-> vr.steps]

\* async.reduce takes the next pair of kvpairs (for-in order of the hash)
hashIterator ==
  /\ pc = "hash"
  /\ \E k \in {j \in inner.pending :
                  /\ RunSteps(CurStep.keyChain.validators, Str(j)).res # Never
                  /\ RunSteps(CurStep.valueChain.validators, memo.o[j]).res
                       # Never} :
       LET r == hashPair(k, memo.o[k], CurStep.keyChain, CurStep.valueChain)
           evs == ItemEvents(Path, CurKey, "key", k, r.key, Top.baton)
                    \o ItemEvents(Path, CurKey, "value", k, r.value, Top.baton)
       IN  IF r.res.ok
           THEN /\ inner' = [results |-> Put(inner.results, r.name, r.res.v),
                             pending |-> inner.pending \ {k}]
                /\ log' = log \o evs
                /\ UNCHANGED <<stack, result, memo, stepIdx, pc>>
           ELSE /\ Fail(ErrorRecord(CurKey, parentKeys, r.res.msg),
                        evs \o <<ChainEvent(Path, CurKey, r.res)>>)
                /\ inner' = NoInner
  /\ UNCHANGED <<schema, finalValidator, baton, swiz, customValidators, obj, existing, call,
                 parentKeys, cleaned, prev, calls>>

\* every pair has been taken: async.reduce hands the memo to the callback
hashCallback ==
  /\ pc = "hash"
  /\ inner.pending = {}
  /\ memo' = Obj(inner.results)
  /\ stepIdx' = stepIdx + 1
  /\ inner' = NoInner
  /\ pc' = "chain"
  /\ UNCHANGED <<schema, finalValidator, baton, swiz, customValidators, obj, existing, call, stack,
                 parentKeys, cleaned, log, result, prev, calls>>

\* the builder calls of the chains with array and hash steps
BuilderCalls ==
  {[m |-> "isArray", chain |-> isInt(Chain)],
   [m |-> "isArray", chain |-> toInt(isInt(Chain))],
   [m |-> "isHash", keyChain |-> isString(Chain), valueChain |-> notEmpty(Chain)],
   [m |-> "isHash", keyChain |-> isString(Chain), valueChain |-> isString(Chain)],
   [m |-> "isHash", keyChain |-> isInt(Chain), valueChain |-> isString(Chain)],
   [m |-> "numItems", min |-> Num(1), max |-> Num(1)],
   [m |-> "numItems", min |-> Num(1), max |-> Undef],
   [m |-> "optional"]}

\* the builder call bc on chain c, for a call that does not throw
ApplyCall(c, bc) ==
  CASE bc.m = "isArray" -> isArray(c, bc.chain)
    [] bc.m = "isHash" -> isHash(c, bc.keyChain, bc.valueChain)
    [] bc.m = "numItems" -> numItems(c, bc.min, bc.max)
    [] bc.m = "custom" -> custom(c, bc.name)
    [] bc.m = "isString" -> isString(c)
    [] OTHER -> optional(c)

CallThrows(c, bc) ==
  \/ bc.m = "numItems" /\ numItemsThrows(c)
  \/ bc.m = "custom" /\ bc.name \notin DOMAIN customValidators

RECURSIVE ItemChains(_)
\* the chains built by n builder calls none of which threw
ItemChains(n) ==
  IF n = 0 THEN {Chain}
  ELSE {ApplyCall(c, bc) :
          <<c, bc>> \in {x \in ItemChains(n - 1) \X BuilderCalls :
                            ~CallThrows(x[1], x[2])}}

\* one field with a chain of array and hash steps, at the top level or in a
\* sub-schema
ItemSchemas ==
  UNION {{<<Field("a", ChainNode(c))>> : c \in ItemChains(n)} :
         n \in 0..MaxItemOps}
  \cup {<<Field("a", SubNode(<<Field("a", ChainNode(c))>>))>> :
          c \in ItemChains(1)}

ItemElements == {Str("1"), Str("2"), Str("x")}

ItemKeys == {"a", "1"}

ItemValues == {Num(1), Str("x"), Str("")}

\* the arrays of at most MaxItems elements and the hashes over ItemKeys
Containers ==
  UNION {{Arr(a) : a \in [1..n -> ItemElements]} : n \in 0..MaxItems}
  \cup {Obj(o) : o \in ObjectsOver(ItemKeys, [k \in ItemKeys |-> ItemValues])}

RECURSIVE ItemInputsFor(_)
\* the input objects offered to a schema of ItemSchemas
ItemInputsFor(fields) ==
  ObjectsOver(KeysOf(fields),
      [k \in KeysOf(fields) |->
          IF NodeOf(fields, k).kind = "chain"
          THEN Containers \cup {NullV, Str("x")}
          ELSE {NullV}
               \cup {Obj(o) : o \in ItemInputsFor(NodeOf(fields, k).fields)}])

InitItems ==
  /\ schema \in ItemSchemas
  /\ finalValidator \in BOOLEAN
  /\ obj \in ItemInputsFor(schema)
  /\ existing = EmptyObj
  /\ call = NoCall
  /\ stack = << >>
  /\ parentKeys = << >>
  /\ memo = Undef
  /\ stepIdx = 0
  /\ cleaned = Undef
  /\ log = << >>
  /\ result = NoResult
  /\ prev = NoPrev
  /\ calls = 0
  /\ baton = Str("aBaton")
  /\ inner = NoInner
  /\ swiz = NoSwiz
  /\ customValidators = Registered
  /\ pc = "idle"

NextItems ==
  \/ Next
  \/ isArrayFunc
  \/ mapIterator
  \/ mapCallback
  \/ isHashFunc
  \/ hashIterator
  \/ hashCallback

SpecItems == InitItems /\ [][NextItems]_vars

\* chains with and without a step that never calls back, at the top level,
\* for the members of an array and in a sub-schema
LiveSchemas ==
  LET chains == {isInt(Chain), optional(isInt(Chain)), never(isInt(Chain)),
                 isArray(Chain, isInt(Chain)),
                 isArray(Chain, never(isInt(Chain))),
                 isHash(Chain, isString(Chain), isString(Chain))}
  IN  {<<Field("a", ChainNode(c))>> : c \in chains}
      \cup {<<Field("a", SubNode(<<Field("a", ChainNode(c))>>)),
              Field("b", ChainNode(isInt(Chain)))>> :
              c \in {isInt(Chain), isArray(Chain, isInt(Chain))}}

InitLive ==
  /\ schema \in LiveSchemas
  /\ finalValidator \in BOOLEAN
  /\ obj \in ItemInputsFor(schema)
  /\ existing = EmptyObj
  /\ call = NoCall
  /\ stack = << >>
  /\ parentKeys = << >>
  /\ memo = Undef
  /\ stepIdx = 0
  /\ cleaned = Undef
  /\ log = << >>
  /\ result = NoResult
  /\ prev = NoPrev
  /\ calls = 0
  /\ baton = Str("aBaton")
  /\ inner = NoInner
  /\ swiz = NoSwiz
  /\ customValidators = Registered
  /\ pc = "idle"

\* every callback that is due is run: a step that can be taken is taken
SpecLive == InitLive /\ [][NextItems]_vars /\ WF_vars(NextItems)

\* the schema {a: chain} under construction
BuiltChain == schema[1].val.chain

InitBuild ==
  /\ schema = <<Field("a", ChainNode(Chain))>>
  /\ finalValidator = FALSE
  /\ obj = EmptyObj
  /\ existing = EmptyObj
  /\ call = NoCall
  /\ stack = << >>
  /\ parentKeys = << >>
  /\ memo = Undef
  /\ stepIdx = 0
  /\ cleaned = Undef
  /\ log = << >>
  /\ result = NoResult
  /\ prev = NoPrev
  /\ calls = 0
  /\ baton = Str("aBaton")
  /\ inner = NoInner
  /\ swiz = NoSwiz
  /\ customValidators = Registered
  /\ pc = "build"

\* one more builder call on the chain of the schema; log keeps the calls
\* that added a step; a call that throws ends the construction
builderCall ==
  /\ pc = "build"
  /\ calls < MaxBuildOps
  /\ \E bc \in BuilderCalls
               \cup {[m |-> "custom", name |-> "isMeaningOfLife"],
                     [m |-> "custom", name |-> "bogus"], [m |-> "isString"]} :
       /\ call' = [op |-> bc.m, strict |-> FALSE]
       /\ IF CallThrows(BuiltChain, bc)
          THEN /\ result' = Thrown
               /\ pc' = "thrown"
               /\ UNCHANGED <<schema, log>>
          ELSE /\ schema' = <<Field("a", ChainNode(ApplyCall(BuiltChain, bc)))>>
               /\ log' = Append(log, bc)
               /\ UNCHANGED <<result, pc>>
       /\ customValidators' =
            IF bc.m = "custom" /\ ~CallThrows(BuiltChain, bc)
            THEN [customValidators EXCEPT
                    ![bc.name].pos = Num(BuiltChain.validatorCount)]
            ELSE customValidators
  /\ calls' = calls + 1
  /\ UNCHANGED <<finalValidator, baton, swiz, inner, obj, existing, stack,
                 parentKeys, memo, stepIdx, cleaned, prev>>

NextBuild == builderCall

SpecBuild == InitBuild /\ [][NextBuild]_vars

(***************************************************************************)
(* checkUpdate.                                                            *)
(***************************************************************************)
UpdateOps == {"isInt", "immutable", "rename"}

RECURSIVE UpdateChains(_)
\* the chains built by exactly n builder calls that matter to checkUpdate
UpdateChains(n) ==
  IF n = 0 THEN {Chain}
  ELSE {ApplyOp(c, op) : c \in UpdateChains(n - 1), op \in UpdateOps}

\* one or two chain fields with MaxUpdateOps builder calls in all, and a
\* sub-schema next to a chain field
UpdateSchemas ==
  UNION {{<<Field("a", ChainNode(c))>> : c \in UpdateChains(k)} :
         k \in 0..MaxUpdateOps}
  \cup UNION {{<<Field("a", ChainNode(c1)), Field("b", ChainNode(c2))>> :
                 c1 \in UpdateChains(k[1]), c2 \in UpdateChains(k[2])} :
              k \in {x \in (0..MaxUpdateOps) \X (0..MaxUpdateOps) :
                       x[1] + x[2] <= MaxUpdateOps}}
  \cup {<<Field("a", SubNode(<<Field("a", ChainNode(isInt(Chain)))>>)),
          Field("b", ChainNode(c))>> : c \in UpdateChains(1)}

\* the existing objects offered to checkUpdate
ExistingInputs(fields) ==
  LET ks == KeysOf(fields) \cup {OtherKey}
  IN  ObjectsOver(ks, [k \in ks |-> {Str("1"), Str("x")}])

InitUpdate ==
  /\ schema \in UpdateSchemas
  /\ finalValidator \in BOOLEAN
  /\ obj \in TopInputs(schema)
  /\ existing \in ExistingInputs(schema)
  /\ call = NoCall
  /\ stack = << >>
  /\ parentKeys = << >>
  /\ memo = Undef
  /\ stepIdx = 0
  /\ cleaned = Undef
  /\ log = << >>
  /\ result = NoResult
  /\ prev = NoPrev
  /\ calls = 0
  /\ baton = Str("aBaton")
  /\ inner = NoInner
  /\ swiz = NoSwiz
  /\ customValidators = Registered
  /\ pc = "idle"

\* a comparison under the field name, whatever the rename target
TargetIgnoringRename(key, n) == key

\* chain.target || key
TargetOf(key, n) ==
  IF n.kind = "chain" /\ n.chain.target # NULL THEN n.chain.target ELSE key

\* the keys of the partial object that would change an immutable field
ImmutableViolations(o, e, fields) ==
  {k \in (DOMAIN o) \cap KeysOf(fields) :
     LET n == NodeOf(fields, k)
     IN  /\ n.kind = "chain"
         /\ n.chain.isImmutable
         /\ Get(Obj(e), TargetOf(k, n)) # o[k]}

Immutable(key) ==
  ErrorRecord(key, << >>, "Attempted to mutate immutable field")

\* a merge loop that writes into the caller's existing object
CleanedIsExisting(e) == [owner |-> "existing", o |-> e]

\* cleaned = {}: the object the merge loop writes into, and who holds it
CleanedHash(e) == [owner |-> "call", o |-> EmptyObj]

\* a merge loop that prefers the existing value to the partial one
MergeWritesExistingFirst(o, e, fields) ==
  [k \in KeysOf(fields) |->
     IF HasOwn(Obj(e), TargetOf(k, NodeOf(fields, k)))
     THEN e[TargetOf(k, NodeOf(fields, k))]
     ELSE Get(Obj(o), k)]

\* the properties the merge loop assigns: cleaned[key] = ..., per schema key
MergeWrites(o, e, fields) ==
  [k \in KeysOf(fields) |->
     IF k \in DOMAIN o THEN o[k]
     ELSE Get(Obj(e), TargetOf(k, NodeOf(fields, k)))]

\* the 'cleaned' hash merged from the partial and the existing object
Merged(o, e, fields) ==
  LET base == CleanedHash(e).o
      w == MergeWrites(o, e, fields)
  IN  [k \in (DOMAIN base) \cup (DOMAIN w) |->
         IF k \in DOMAIN w THEN w[k] ELSE base[k]]

checkUpdate ==
  /\ Enter("checkUpdate", FALSE)
  /\ stack' = << >>
  /\ IF ImmutableViolations(obj, existing, schema) # {}
     THEN /\ \E k \in ImmutableViolations(obj, existing, schema) :
                result' = Callback(Immutable(k), Undef)
          /\ cleaned' = Undef
          /\ pc' = "done"
          /\ UNCHANGED existing
     ELSE /\ cleaned' = Obj(Merged(obj, existing, schema))
          \* an assignment to cleaned[key] is an assignment to every object
          \* that cleaned refers to
          /\ existing' = IF CleanedHash(existing).owner = "existing"
                         THEN Merged(obj, existing, schema) ELSE existing
          /\ IF finalValidator
             THEN result' = NoResult /\ pc' = "final"
             ELSE /\ result' = Callback(NoErr, Obj(Merged(obj, existing, schema)))
                  /\ pc' = "done"

NextUpdate == checkUpdate \/ finalValidate

SpecUpdate == InitUpdate /\ [][NextUpdate]_vars

\* the schemas of a Valve on which check, checkPartial and checkUpdate are
\* all called: two chain fields, and the nested schemas of depth one
CallSchemas ==
  {<<Field("a", ChainNode(c)), Field("b", ChainNode(isInt(Chain)))>> :
     c \in {Chain} \cup {ApplyOp(Chain, op) : op \in ChainOps}}
  \cup NestedSchemas(1)

InitCalls ==
  /\ schema \in CallSchemas
  /\ finalValidator \in BOOLEAN
  /\ obj \in TopInputs(schema)
  /\ existing \in ExistingInputs(schema)
  /\ call = NoCall
  /\ stack = << >>
  /\ parentKeys = << >>
  /\ memo = Undef
  /\ stepIdx = 0
  /\ cleaned = Undef
  /\ log = << >>
  /\ result = NoResult
  /\ prev = NoPrev
  /\ calls = 0
  /\ baton = Str("aBaton")
  /\ inner = NoInner
  /\ swiz = NoSwiz
  /\ customValidators = Registered
  /\ pc = "idle"

NextCalls == Next \/ checkUpdate

SpecCalls == InitCalls /\ [][NextCalls]_vars

(***************************************************************************)
(* Swiz (src/node_modules/swiz/lib/serializer.js): buildObject,            *)
(* buildObjectSync, serializeXml and deserializeXml.                       *)
(***************************************************************************)
\* the options of the Swiz: defaultOptions, no options given
SwizOptions == [stripNulls |-> TRUE, stripSerializerType |-> TRUE, for |-> NULL]

\* this._defs[stype]; null when the type is not registered
DefOf(stype) ==
  IF \E i \in DOMAIN swiz.defs : swiz.defs[i].key = stype
  THEN swiz.defs[CHOOSE i \in DOMAIN swiz.defs : swiz.defs[i].key = stype].def
  ELSE NullV

\* a domain object: its properties and the type its getSerializerType returns
Tagged(stype, o) == [t |-> "obj", o |-> o, getSerializerType |-> stype]

\* an object built by buildObject: the non-enumerable serializerType property
Built(stype, o) == [t |-> "obj", o |-> o, serializerType |-> stype]

\* a function-valued property: it calls its callback with (err, value)
Function(err, value) == [t |-> "function", err |-> err, value |-> value]

HasSerializerType(v) == v.t = "obj" /\ "getSerializerType" \in DOMAIN v

\* the outcome of a continuation: callback(err, value)
Delivered(err, value) == [err |-> err, value |-> value]

\* src = field.src || dst
SrcOf(field) == IF field.src # NULL THEN field.src ELSE field.name

\* self._options.for names an audience the field is filtered from
Filtered(field) ==
  /\ SwizOptions.for # NULL
  /\ field.filterFrom # {}
  /\ SwizOptions.for \in field.filterFrom

\* the first key k of field.enumerated with field.enumerated[k] === value,
\* NULL when there is none or the field is not enumerated
EnumKey(field, value) ==
  LET hits == {i \in DOMAIN field.enumerated : field.enumerated[i].v = value}
  IN  IF hits = {} THEN NULL
      ELSE field.enumerated[CHOOSE i \in hits : \A j \in hits : i <= j].k

\* Object.keys(o): the objects of the model do not record the order in
\* which their keys were added; the order matters only to the partial
\* result delivered with an error, and the maps offered hold one key
RECURSIVE ObjectKeys(_)
ObjectKeys(o) ==
  IF DOMAIN o = {} THEN << >>
  ELSE LET k == CHOOSE x \in DOMAIN o : TRUE
       IN  <<k>> \o ObjectKeys([x \in (DOMAIN o) \ {k} |-> o[x]])

RECURSIVE _buildObject(_)
RECURSIVE iterArr(_, _, _)
RECURSIVE iterObj(_, _, _, _)
RECURSIVE iterMap(_, _, _, _)
\* Swiz.prototype._buildObject: what the callback is given
_buildObject(v) ==
  CASE v.t = "function" ->
         IF v.err # NullV THEN Delivered(v.err, Undef) ELSE _buildObject(v.value)
    [] v.t = "arr" -> iterArr(v.a, 1, << >>)
    [] HasSerializerType(v) ->
         IF DefOf(v.getSerializerType) = NullV
         THEN Delivered(Str("No definition for this type; no way to serialize "
                            \o v.getSerializerType), Undef)
         ELSE iterObj(v, DefOf(v.getSerializerType).fields, 1, EmptyObj)
    [] v.t = "obj" -> iterMap(v, ObjectKeys(v.o), 1, EmptyObj)
    [] OTHER -> Delivered(NullV, v)

\* async.map(obj, iterArr, callback) from item i on
iterArr(items, i, results) ==
  IF i > Len(items) THEN Delivered(NullV, Arr(results))
  ELSE LET r == _buildObject(items[i])
       IN  IF r.err # NullV THEN Delivered(r.err, Arr(Append(results, r.value)))
           ELSE iterArr(items, i + 1, Append(results, r.value))

\* async.forEach(def.fields, iterObj, callback) from field i on
iterObj(v, fields, i, res) ==
  IF i > Len(fields) THEN Delivered(NullV, Built(v.getSerializerType, res))
  ELSE LET field == fields[i]
           value == Get(v, SrcOf(field))
       IN  CASE Filtered(field) -> iterObj(v, fields, i + 1, res)
             [] ~Filtered(field) /\ EnumKey(field, value) # NULL ->
                  iterObj(v, fields, i + 1,
                          Put(res, field.name, Str(EnumKey(field, value))))
             [] OTHER ->
                  LET r == _buildObject(value)
                      next == Put(res, field.name, r.value)
                  IN  IF r.err # NullV
                      THEN Delivered(r.err, Built(v.getSerializerType, next))
                      ELSE iterObj(v, fields, i + 1, next)

\* async.forEach(keys, iterMap, callback) from key i on
iterMap(v, keys, i, res) ==
  IF i > Len(keys) THEN Delivered(NullV, Obj(res))
  ELSE LET r == _buildObject(v.o[keys[i]])
           next == Put(res, keys[i], r.value)
       IN  IF r.err # NullV THEN Delivered(r.err, Obj(next))
           ELSE iterMap(v, keys, i + 1, next)

\* obj.map(self.buildObjectSync) hands the method over without its receiver:
\* in the calls that map makes, "this" is not the Swiz
MapReceiver == FALSE

RECURSIVE buildObjectSync(_, _)
RECURSIVE syncArr(_, _, _)
RECURSIVE syncObj(_, _, _, _)
RECURSIVE syncMap(_, _, _, _)
\* Swiz.prototype.buildObjectSync; isSwiz tells whether "this" is the Swiz:
\* without it this._defs[stype], self.buildObjectSync(...) and
\* obj.map(self.buildObjectSync) raise a TypeError
buildObjectSync(isSwiz, v) ==
  CASE v.t = "function" -> Returned(Undef)
    [] v.t = "arr" -> IF ~isSwiz THEN Raised ELSE syncArr(v.a, 1, << >>)
    [] HasSerializerType(v) ->
         IF ~isSwiz \/ DefOf(v.getSerializerType) = NullV THEN Raised
         ELSE syncObj(v, DefOf(v.getSerializerType).fields, 1, EmptyObj)
    [] v.t = "obj" -> syncMap(isSwiz, v, ObjectKeys(v.o), EmptyObj)
    [] OTHER -> Returned(v)

\* obj.map(...) from item i on
syncArr(items, i, results) ==
  IF i > Len(items) THEN Returned(Arr(results))
  ELSE LET r == buildObjectSync(MapReceiver, items[i])
       IN  IF r.throw THEN Raised
           ELSE syncArr(items, i + 1, Append(results, r.value))

\* def.fields.forEach(...) from field i on
syncObj(v, fields, i, res) ==
  IF i > Len(fields) THEN Returned(Built(v.getSerializerType, res))
  ELSE LET field == fields[i]
           value == Get(v, SrcOf(field))
       IN  CASE Filtered(field) -> syncObj(v, fields, i + 1, res)
             [] ~Filtered(field) /\ EnumKey(field, value) # NULL ->
                  syncObj(v, fields, i + 1,
                          Put(res, field.name, Str(EnumKey(field, value))))
             [] OTHER ->
                  LET r == buildObjectSync(TRUE, value)
                  IN  IF r.throw THEN Raised
                      ELSE syncObj(v, fields, i + 1,
                                   Put(res, field.name, r.value))

\* keys.forEach(...) over the keys left
syncMap(isSwiz, v, keys, res) ==
  IF keys = << >> THEN Returned(Obj(res))
  ELSE IF ~isSwiz THEN Raised
  ELSE LET r == buildObjectSync(TRUE, v.o[Head(keys)])
       IN  IF r.throw THEN Raised
           ELSE syncMap(isSwiz, v, Tail(keys), Put(res, Head(keys), r.value))

\* an elementtree Element; text is '' when the element holds no text
Element(tag, attrib, text, children) ==
  [tag |-> tag, attrib |-> attrib, text |-> text, children |-> children]

NoAttrib == [k \in {} |-> ""]

\* what a call of _serializeXml adds to the element it is given: attributes
\* set on it and elements appended to it, or an exception
Added(attrib, children) ==
  [throw |-> FALSE, attrib |-> attrib, children |-> children]

Nothing == Added(NoAttrib, << >>)

AddFailed == [throw |-> TRUE, attrib |-> NoAttrib, children |-> << >>]

\* two calls on the same element, one after the other
Both(a, b) ==
  IF a.throw \/ b.throw THEN AddFailed
  ELSE Added([k \in (DOMAIN a.attrib) \cup (DOMAIN b.attrib) |->
                IF k \in DOMAIN b.attrib THEN b.attrib[k] ELSE a.attrib[k]],
             a.children \o b.children)

\* an element with what the calls made on it have added
Filled(tag, text, added) ==
  IF added.throw THEN AddFailed
  ELSE Added(NoAttrib, <<Element(tag, added.attrib, text, added.children)>>)

\* Swiz.prototype.getFieldDefinition, for a registered type
getFieldDefinition(stype, name) ==
  LET fields == DefOf(stype).fields
      hits == {i \in DOMAIN fields : fields[i].name = name}
  IN  IF hits = {} THEN NullV
      ELSE fields[CHOOSE i \in hits : \A j \in hits : i <= j]

RECURSIVE _serializeXml(_, _, _, _, _)
RECURSIVE serializeItems(_, _, _, _, _)
RECURSIVE serializeFields(_, _, _)
RECURSIVE serializeKeys(_, _)
\* Swiz.prototype._serializeXml; hasElem tells whether elem is an element
_serializeXml(stype, hasElem, v, arrayItem, key) ==
  CASE v.t = "arr" ->
         IF stype # NULL
         THEN LET field == getFieldDefinition(stype, key)
              IN  IF field = NullV THEN AddFailed
                  ELSE IF field.singular = NULL THEN AddFailed
                  ELSE Filled(field.plural, "",
                              serializeItems(stype, TRUE, v.a, 1, field.singular))
         ELSE serializeItems(stype, hasElem, v.a, 1, key)
    [] v.t = "obj" /\ "serializerType" \in DOMAIN v ->
         LET def == DefOf(v.serializerType)
             fields == serializeFields(v, def.fields, 1)
         IN  CASE def = NullV -> AddFailed
               [] def # NullV /\ key # NULL /\ arrayItem ->
                    Filled(def.singular, "", fields)
               [] def # NullV /\ key # NULL /\ ~arrayItem /\ key # def.singular ->
                    Filled(key, "", Filled(def.singular, "", fields))
               [] def # NullV /\ key # NULL /\ ~arrayItem /\ key = def.singular ->
                    Filled(key, "", fields)
               [] OTHER -> Filled(def.singular, "", fields)
    [] v.t = "obj" /\ "serializerType" \notin DOMAIN v ->
         Filled(key, "", serializeKeys(v, ObjectKeys(v.o)))
    [] v.t = "null" ->
         IF SwizOptions.stripNulls THEN Nothing
         ELSE Filled(key, "", Nothing)
    [] v.t = "undefined" -> Nothing
    [] OTHER ->
         LET field == IF stype # NULL THEN getFieldDefinition(stype, key)
                      ELSE NullV
             attribute == IF field # NullV THEN field.attribute ELSE FALSE
         IN  IF attribute
             THEN IF ~hasElem THEN AddFailed
                  ELSE Added((key :> StringOf(v)), << >>)
             ELSE Filled(key, StringOf(v), Nothing)

\* the loop over the members of an array, from member i on
serializeItems(stype, hasElem, items, i, key) ==
  IF i > Len(items) THEN Nothing
  ELSE Both(_serializeXml(stype, hasElem, items[i], TRUE, key),
            serializeItems(stype, hasElem, items, i + 1, key))

\* the loop over the fields of the definition, from field i on
serializeFields(v, fields, i) ==
  IF i > Len(fields) THEN Nothing
  ELSE Both(_serializeXml(v.serializerType, TRUE, Get(v, fields[i].name),
                          FALSE, fields[i].name),
            serializeFields(v, fields, i + 1))

\* the loop over the keys of a map
serializeKeys(v, keys) ==
  IF keys = << >> THEN Nothing
  ELSE Both(_serializeXml(NULL, TRUE, v.o[Head(keys)], FALSE, Head(keys)),
            serializeKeys(v, Tail(keys)))

\* Swiz.prototype.serializeXml; etree.write() is modelled by the tree of
\* elements it writes down
serializeXml(v) ==
  IF v.t = "arr"
  THEN LET first == IF v.a = << >> THEN Undef ELSE v.a[1]
           stype == IF first.t = "obj" /\ "serializerType" \in DOMAIN first
                    THEN first.serializerType ELSE NULL
           added == _serializeXml(NULL, TRUE, v, TRUE, NULL)
       IN  CASE Throws(first) -> Raised
             [] ~Throws(first) /\ stype # NULL /\ DefOf(stype) = NullV -> Raised
             [] ~Throws(first) /\ stype # NULL /\ DefOf(stype) # NullV ->
                  IF added.throw THEN Raised
                  ELSE Returned(Element(DefOf(stype).plural, added.attrib, "",
                                        added.children))
             [] OTHER ->
                  IF added.throw THEN Raised
                  ELSE Returned(Element("group", added.attrib, "", added.children))
  ELSE LET added == _serializeXml(NULL, FALSE, v, FALSE, NULL)
       IN  IF added.throw \/ added.children = << >> THEN Raised
           ELSE Returned(added.children[1])

\* Swiz.prototype._defFor; null when no definition goes by the tag
_defFor(tag) ==
  LET hits == {i \in DOMAIN swiz.defs :
                 swiz.defs[i].def.plural = tag \/ swiz.defs[i].def.singular = tag}
  IN  CASE DefOf(tag) # NullV -> DefOf(tag)
        [] DefOf(tag) = NullV /\ hits # {} ->
             swiz.defs[CHOOSE i \in hits : \A j \in hits : i <= j].def
        [] OTHER -> NullV

\* findField: the last field of that name, null when there is none
findField(name, fields) ==
  LET hits == {i \in DOMAIN fields : fields[i].name = name}
  IN  IF hits = {} THEN NullV
      ELSE fields[CHOOSE i \in hits : \A j \in hits : j <= i]

\* String.prototype.trim on the texts of the model, of which " " is the
\* only one with whitespace
trim(str) == IF str = " " THEN "" ELSE str

\* struct.coerce on the text of an element or an attribute: a decimal
\* number is read as a number, any other text stays a string
coerce(text) ==
  IF text \in DOMAIN IntOfStr THEN Num(IntOfStr[text]) ELSE Str(text)

\* Field.coerce: coerceTo array gives an array, empty for no text
FieldCoerce(field, text) ==
  CASE field.coerceTo = NULL -> coerce(text)
    [] field.coerceTo = "array" ->
         IF text = "" THEN Arr(<< >>) ELSE Arr(<<coerce(text)>>)
    [] OTHER -> coerce(text)

\* the attributes of the element as fields of the object; a TypeError when
\* the definition has no field for an attribute
FromAttributes(elem, def) ==
  IF \E attr \in DOMAIN elem.attrib : findField(attr, def.fields) = NullV
  THEN Raised
  ELSE Returned([attr \in DOMAIN elem.attrib |->
                  FieldCoerce(findField(attr, def.fields), elem.attrib[attr])])

RECURSIVE _emitFromDef(_, _)
RECURSIVE emitChild(_, _)
RECURSIVE emitChildren(_, _, _, _)
RECURSIVE emitList(_, _, _, _, _)
RECURSIVE emitHash(_, _, _, _, _)
RECURSIVE _deserializeXml(_)
RECURSIVE deserializeValues(_, _, _)
\* Swiz.prototype._emitFromDef
_emitFromDef(elem, def) ==
  LET attrs == FromAttributes(elem, def)
      field == findField(elem.tag, def.fields)
  IN  CASE attrs.throw -> Raised
        [] ~attrs.throw /\ Len(elem.text) > 0 /\ Len(trim(elem.text)) > 0 ->
             Returned(Obj(Put(attrs.value, elem.tag,
                             IF field # NullV THEN FieldCoerce(field, elem.text)
                             ELSE coerce(elem.text))))
        [] ~attrs.throw /\ ~(Len(elem.text) > 0 /\ Len(trim(elem.text)) > 0)
             /\ Len(elem.children) = 0 ->
             Returned(Obj(Put(attrs.value, elem.tag, NullV)))
        [] OTHER -> emitChildren(elem.children, 1, def, attrs.value)

\* elem._children.forEach(...) from child i on
emitChildren(children, i, def, o) ==
  IF i > Len(children) THEN Returned(Obj(o))
  ELSE LET r == emitChild(children[i], def)
       IN  IF r.throw THEN Raised
           ELSE emitChildren(children, i + 1, def, Put(o, children[i].tag, r.value))

\* the value that obj[child.tag] is given
emitChild(child, def) ==
  LET field == findField(child.tag, def.fields)
  IN  IF Len(child.children) = 0
      THEN CASE child.text = "" /\ field = NullV -> Raised
             [] child.text = "" /\ field # NullV ->
                  IF field.coerceTo = NULL THEN Returned(NullV)
                  ELSE Returned(FieldCoerce(field, child.text))
             [] child.text # "" /\ field # NullV ->
                  Returned(FieldCoerce(field, child.text))
             [] OTHER -> Returned(coerce(child.text))
      ELSE CASE field = NullV -> Raised
             [] field # NullV /\ Len(child.children) = 1
                  /\ _defFor(child.children[1].tag) # NullV ->
                  _deserializeXml(child.children[1])
             [] field # NullV
                  /\ ~(Len(child.children) = 1
                       /\ _defFor(child.children[1].tag) # NullV)
                  /\ child.tag = field.plural /\ field.plural # field.singular ->
                  emitList(child.children, 1, field, def, << >>)
             [] OTHER -> emitHash(child.children, 1, field, def, EmptyObj)

\* the list of the grandchildren, from grandchild i on
emitList(grandChildren, i, field, def, list) ==
  IF i > Len(grandChildren) THEN Returned(Arr(list))
  ELSE LET r == IF Len(grandChildren[i].text) > 0
                THEN Returned(FieldCoerce(field, grandChildren[i].text))
                ELSE _emitFromDef(grandChildren[i], def)
       IN  IF r.throw THEN Raised
           ELSE emitList(grandChildren, i + 1, field, def, Append(list, r.value))

\* the hash of the grandchildren by tag, from grandchild i on
emitHash(grandChildren, i, field, def, hash) ==
  IF i > Len(grandChildren) THEN Returned(Obj(hash))
  ELSE LET r == IF Len(grandChildren[i].text) > 0
                THEN Returned(FieldCoerce(field, grandChildren[i].text))
                ELSE _emitFromDef(grandChildren[i], def)
       IN  IF r.throw THEN Raised
           ELSE emitHash(grandChildren, i + 1, field, def,
                         Put(hash, grandChildren[i].tag, r.value))

\* Swiz.prototype._deserializeXml, for an element that is not a container
_deserializeXml(elem) ==
  LET def == _defFor(elem.tag)
  IN  CASE def = NullV -> Raised
        [] def # NullV /\ def.plural = elem.tag ->
             deserializeValues(elem.children, def, << >>)
        [] OTHER -> _emitFromDef(elem, def)

\* the list of the objects of the children of a plural element
deserializeValues(children, def, list) ==
  IF children = << >> THEN Returned(Arr(list))
  ELSE LET r == _emitFromDef(Head(children), def)
       IN  IF r.throw THEN Raised
           ELSE deserializeValues(Tail(children), def, Append(list, r.value))

\* Swiz.prototype.deserializeXml; et.XML() is modelled by the tree of
\* elements it reads
deserializeXml(xml) == _deserializeXml(xml.value)

\* the variables of the Valve, which no call on the Swiz touches
ValveVars ==
  <<schema, finalValidator, obj, existing, call, stack, parentKeys, memo,
    stepIdx, cleaned, log, result, prev, calls, baton, inner,
    customValidators, pc>>

\* swiz.buildObject(x, callback)
buildObject ==
  /\ swiz.built = Pending
  /\ "building" \notin DOMAIN swiz.paged
  /\ swiz' = [swiz EXCEPT !.built = _buildObject(swiz.x)]
  /\ UNCHANGED ValveVars

\* swiz.buildObjectSync(x)
callBuildObjectSync ==
  /\ swiz.sync = Pending
  /\ swiz' = [swiz EXCEPT !.sync = buildObjectSync(TRUE, swiz.x)]
  /\ UNCHANGED ValveVars

IsBuilt(v) == v.t = "obj" /\ "serializerType" \in DOMAIN v

\* swiz.serializeXml(built), called with an object built from a definition or
\* an array of such objects
callSerializeXml ==
  /\ swiz.built # Pending
  /\ swiz.built.err = NullV
  /\ \/ IsBuilt(swiz.built.value)
     \/ /\ swiz.built.value.t = "arr"
        /\ \A i \in DOMAIN swiz.built.value.a : IsBuilt(swiz.built.value.a[i])
  /\ swiz.xml = Pending
  /\ swiz' = [swiz EXCEPT !.xml = serializeXml(swiz.built.value)]
  /\ UNCHANGED ValveVars

\* swiz.deserializeXml(xml)
callDeserializeXml ==
  /\ swiz.xml # Pending
  /\ ~swiz.xml.throw
  /\ swiz.parsed = Pending
  /\ swiz' = [swiz EXCEPT !.parsed = deserializeXml(swiz.xml)]
  /\ UNCHANGED ValveVars

\* the arrays of at most MaxMembers members of S
ArraysOf(S) == {Arr(a) : a \in UNION {[1..n -> S] : n \in 0..MaxMembers}}

\* the structures given to the Swiz: Node objects that hold scalars,
\* sequences, nested tagged objects and enumerations; Node objects with a
\* function-valued property; arrays and maps given as they are
SwizInputs ==
  LET opts(s) == Tagged("NodeOpts", ("opt1" :> s))
      node(st, t, o, c) ==
        Tagged("Node", [hash_id |-> Str("a"), state |-> st, tags |-> t,
                        options |-> o, children |-> c])
  IN  {node(st, t, o, c) :
         st \in {Num(0), Num(1)}, t \in ArraysOf({Str("a"), Str("b")}),
         o \in {opts(Str("a")), opts(NullV), NullV},
         c \in ArraysOf({opts(Str("a")), opts(NullV)})}
      \cup {node(Num(1), NullV, f, NullV) :
              f \in {Function(NullV, Str("a")), Function(Str("failed"), Undef),
                     Function(NullV, opts(Str("b")))}}
      \cup ArraysOf({Str("a"), Obj(EmptyObj), Obj("k" :> Str("a")),
                     opts(Str("a")), Arr(<< >>)})
      \cup {Obj("k" :> v) : v \in {Str("a"), Arr(<<Str("a")>>), opts(Str("a"))}}

InitSwiz ==
  /\ schema = <<Field("a", ChainNode(Chain))>>
  /\ finalValidator = FALSE
  /\ obj = EmptyObj
  /\ existing = EmptyObj
  /\ call = NoCall
  /\ stack = << >>
  /\ parentKeys = << >>
  /\ memo = Undef
  /\ stepIdx = 0
  /\ cleaned = Undef
  /\ log = << >>
  /\ result = NoResult
  /\ prev = NoPrev
  /\ calls = 0
  /\ baton = Str("aBaton")
  /\ inner = NoInner
  /\ swiz \in {[NoSwiz EXCEPT !.x = x] : x \in SwizInputs}
  /\ customValidators = Registered
  /\ pc = "idle"

NextSwiz ==
  \/ buildObject
  \/ callBuildObjectSync
  \/ callSerializeXml
  \/ callDeserializeXml

SpecSwiz == InitSwiz /\ [][NextSwiz]_vars

\* exports.SERIALIZATION
SERIALIZATION_JSON == 0

SERIALIZATION_XML == 1

\* Swiz.prototype.serializeJson: JSON.stringify with the replacer of
\* jsonTransform; the text is modelled by the JSON document it writes down
\* (the indentation is left out): a property whose value is null or undefined
\* is pruned, such a member of an array is written as null, and so is a
\* number that is not finite; the non-enumerable serializerType is not visited
serializeJson(v) ==
  LET RECURSIVE stringify(_)
      stringify(w) ==
        CASE w.t = "arr" ->
               Arr([i \in DOMAIN w.a |->
                      IF Throws(w.a[i]) THEN NullV ELSE stringify(w.a[i])])
          [] w.t = "obj" ->
               Obj([k \in {x \in DOMAIN w.o : ~Throws(w.o[x])} |->
                      stringify(w.o[k])])
          [] w.t \in {"nan", "inf"} -> NullV
          [] OTHER -> w
  IN  IF Throws(v) THEN Undef ELSE stringify(v)

\* serialize, had it gone on with what buildObject built after an error
serializeDespiteError(mode, v) ==
  LET r == _buildObject(v)
  IN  CASE mode = SERIALIZATION_XML ->
             IF serializeXml(r.value).throw THEN Raised
             ELSE Delivered(NullV, serializeXml(r.value).value)
        [] mode = SERIALIZATION_JSON ->
             Delivered(NullV, serializeJson(r.value))
        [] OTHER ->
             Delivered(Str("Unrecognized serialization mode: " \o ToString(mode)),
                       Undef)

\* Swiz.prototype.serialize(mode, version, obj, callback): what the callback
\* is given, or the exception of serializeXml that leaves the callback of
\* buildObject
serialize(mode, v) ==
  LET r == _buildObject(v)
  IN  CASE r.err # NullV -> Delivered(r.err, Undef)
        [] r.err = NullV /\ mode = SERIALIZATION_XML ->
             IF serializeXml(r.value).throw THEN Raised
             ELSE Delivered(NullV, serializeXml(r.value).value)
        [] r.err = NullV /\ mode = SERIALIZATION_JSON ->
             Delivered(NullV, serializeJson(r.value))
        [] OTHER ->
             Delivered(Str("Unrecognized serialization mode: " \o ToString(mode)),
                       Undef)

\* the modes offered: JSON, XML and a number that is no mode
Modes == {SERIALIZATION_JSON, SERIALIZATION_XML, SERIALIZATION_XML + 1}

\* swiz.serialize(mode, 1, x, callback)
callSerialize ==
  /\ swiz.out = Pending
  /\ "building" \notin DOMAIN swiz.paged
  /\ \E mode \in Modes :
       swiz' = [swiz EXCEPT !.out = [mode |-> mode, res |-> serialize(mode, swiz.x)]]
  /\ UNCHANGED ValveVars

\* the definition that serializeForPagination registers
Container ==
  O("Container", "container", "containers",
    << F("values", NULL, FALSE, "value", "values", << >>),
       F("metadata", NULL, FALSE, "metadata", "metadata", << >>) >>)

\* an assignment that would replace the whole of this._defs
RegisterAlone(defs, key, def) == <<[key |-> key, def |-> def]>>

\* this._defs[key] = def: a key that is there keeps its place
Register(defs, key, def) ==
  IF \E i \in DOMAIN defs : defs[i].key = key
  THEN [i \in DOMAIN defs |->
          IF defs[i].key = key THEN [key |-> key, def |-> def] ELSE defs[i]]
  ELSE Append(defs, [key |-> key, def |-> def])

\* swiz.serializeForPagination(mode, x, metadata, callback) up to its call
\* of buildObject: the checks of the array and of the mode, the definition
\* registered as '_paginationContainer' and the container object
callSerializeForPagination ==
  /\ swiz.paged = Pending
  /\ \E mode \in Modes, metadata \in {Obj(EmptyObj), Obj("page" :> Num(1))} :
       swiz' =
         CASE swiz.x.t # "arr" -> [swiz EXCEPT !.paged = Raised]
           [] swiz.x.t = "arr"
                /\ mode \notin {SERIALIZATION_XML, SERIALIZATION_JSON} ->
                [swiz EXCEPT !.paged =
                   Delivered(Str("Unrecognized serialization mode: "
                                 \o ToString(mode)), Undef)]
           [] OTHER ->
                [swiz EXCEPT
                   !.defs = Register(@, "_paginationContainer", Container),
                   !.paged = [building |-> TRUE, mode |-> mode,
                              containerObj |->
                                Tagged("_paginationContainer",
                                       [values |-> swiz.x,
                                        metadata |-> metadata])]]
  /\ UNCHANGED ValveVars

\* the rest of serializeForPagination: buildObject(containerObj, ...) with
\* the definition registered, and its callback
paginationBuilt ==
  /\ "building" \in DOMAIN swiz.paged
  /\ LET r == _buildObject(swiz.paged.containerObj)
     IN  swiz' =
           [swiz EXCEPT !.paged =
              CASE r.err # NullV -> Delivered(r.err, Undef)
                [] r.err = NullV /\ swiz.paged.mode = SERIALIZATION_XML ->
                     IF serializeXml(r.value).throw THEN Raised
                     ELSE Delivered(NullV, serializeXml(r.value).value)
                [] OTHER -> Delivered(NullV, serializeJson(r.value))]
  /\ UNCHANGED ValveVars

\* a text given to deserialize: an XML document, a JSON document, or a text
\* that is neither
Text(syntax, doc) == [syntax |-> syntax, doc |-> doc]

\* Swiz.prototype.deserialize(mode, version, raw, callback): what the
\* callback is given, or the exception that et.XML() or _deserializeXml
\* raises, which deserialize does not catch
deserialize(mode, raw) ==
  CASE mode = SERIALIZATION_XML ->
         IF raw.syntax # "xml" THEN Raised
         ELSE IF _deserializeXml(raw.doc).throw THEN Raised
         ELSE Delivered(NullV, _deserializeXml(raw.doc).value)
    [] mode = SERIALIZATION_JSON ->
         IF raw.syntax # "json" THEN Delivered(Str("SyntaxError"), Undef)
         ELSE Delivered(NullV, raw.doc)
    [] OTHER ->
         Delivered(Str("Unrecognized serialization mode: " \o ToString(mode)),
                   Undef)

\* swiz.deserialize(mode, 1, raw, callback)
callDeserialize ==
  /\ swiz.back = Pending
  /\ "building" \notin DOMAIN swiz.paged
  /\ \E mode \in Modes :
       swiz' = [swiz EXCEPT !.back = [mode |-> mode,
                                      res |-> deserialize(mode, swiz.raw)]]
  /\ UNCHANGED ValveVars

\* the structures given to serialize: structures of registered types, and
\* structures that hold an object of the type 'monito', which is not
\* registered, as a member, as the value of a key, as the value of a field,
\* as the value a function delivers, two levels down, and in a property
\* that the definition of the object does not name
SerializeInputs ==
  LET opts(s) == Tagged("NodeOpts", ("opt1" :> s))
      monito == Tagged("monito", EmptyObj)
      node(o, c) ==
        Tagged("Node", [hash_id |-> Str("a"), state |-> Num(1), tags |-> NullV,
                        options |-> o, children |-> c])
  IN  {node(o, NullV) :
         o \in {opts(Str("a")), NullV, monito, opts(monito),
                Function(NullV, monito), Function(NullV, opts(Str("b"))),
                Function(Str("failed"), Undef)}}
      \cup {node(NullV, Arr(c)) :
              c \in {<<opts(Str("a"))>>, <<opts(Str("a")), monito>>}}
      \cup {Tagged("NodeOpts", [opt1 |-> Str("a"), extra |-> monito]),
            monito, Arr(<<monito>>), Arr(<<opts(Str("a")), monito>>),
            Arr(<<opts(Str("a"))>>), Arr(<< >>),
            Obj("k" :> monito), Obj("k" :> Arr(<<monito>>))}

\* the texts given to deserialize: a JSON document, a text that is neither
\* JSON nor XML, and XML documents: a nodeOpts element, a list of them, an
\* element that no definition goes by, and an element with a child that its
\* definition does not name
RawTexts ==
  LET option1 == Element("option1", NoAttrib, "a", << >>)
      nodeOpts == Element("nodeOpts", NoAttrib, "", <<option1>>)
  IN  {Text("json", Obj("opt1" :> Str("a"))), Text("none", Undef),
       Text("xml", nodeOpts),
       Text("xml", Element("nodeOptsList", NoAttrib, "", <<nodeOpts>>)),
       Text("xml", Element("monito", NoAttrib, "", <<option1>>)),
       Text("xml", Element("nodeOpts", NoAttrib, "",
                           <<option1, Element("bogus", NoAttrib, "", << >>)>>))}

InitSerialize ==
  /\ schema = <<Field("a", ChainNode(Chain))>>
  /\ finalValidator = FALSE
  /\ obj = EmptyObj
  /\ existing = EmptyObj
  /\ call = NoCall
  /\ stack = << >>
  /\ parentKeys = << >>
  /\ memo = Undef
  /\ stepIdx = 0
  /\ cleaned = Undef
  /\ log = << >>
  /\ result = NoResult
  /\ prev = NoPrev
  /\ calls = 0
  /\ baton = Str("aBaton")
  /\ inner = NoInner
  /\ swiz \in {[NoSwiz EXCEPT !.x = x, !.raw = raw] :
                 x \in SerializeInputs, raw \in RawTexts}
  /\ customValidators = Registered
  /\ pc = "idle"

NextSerialize ==
  \/ buildObject
  \/ callSerialize
  \/ callSerializeForPagination
  \/ paginationBuilt
  \/ callDeserialize

SpecSerialize == InitSerialize /\ [][NextSerialize]_vars

\* a Valve whose chains hold the custom validator, next to a Swiz: a schema
\* with one custom field, and one with a sub-schema and an optional custom
\* field
FrameSchemas ==
  {<<Field("a", ChainNode(custom(Chain, "isMeaningOfLife")))>>,
   <<Field("a", SubNode(<<Field("a", ChainNode(isInt(Chain)))>>)),
     Field("b", ChainNode(optional(custom(Chain, "isMeaningOfLife"))))>>}

InitFrame ==
  /\ schema \in FrameSchemas
  /\ finalValidator \in BOOLEAN
  /\ obj \in {EmptyObj, ("a" :> Num(42)), ("a" :> Num(43)), ("a" :> NullV),
              ("b" :> NullV),
              ("a" :> Obj("a" :> Str("1")) @@ "b" :> Num(42)),
              ("a" :> Obj("a" :> Str("x")) @@ "b" :> Num(43))}
  /\ existing = ("a" :> Str("1"))
  /\ call = NoCall
  /\ stack = << >>
  /\ parentKeys = << >>
  /\ memo = Undef
  /\ stepIdx = 0
  /\ cleaned = Undef
  /\ log = << >>
  /\ result = NoResult
  /\ prev = NoPrev
  /\ calls = 0
  /\ baton = Str("aBaton")
  /\ inner = NoInner
  /\ swiz = [NoSwiz EXCEPT
                !.x = Arr(<<Tagged("NodeOpts", ("opt1" :> Str("a")))>>),
                !.raw = Text("json", Obj(EmptyObj))]
  /\ customValidators = Registered
  /\ pc = "idle"

NextFrame == Next \/ checkUpdate \/ NextSerialize

SpecFrame == InitFrame /\ [][NextFrame]_vars

\* exports.defToValve, for the fields of one Object Definition: the chains
\* of validity[group] by field, and the fields afterwards; the chain given as
\* field.val is the object that enumerated() and rename() are called on
defToValve(fields) ==
  LET given(j) == fields[j].val # NullV
      base(j) == IF given(j) THEN fields[j].val ELSE Chain
      mapped(j) == IF fields[j].enumerated # << >> THEN enumerated(base(j))
                   ELSE base(j)
      chain(j) == IF fields[j].src # NULL THEN rename(mapped(j), fields[j].src)
                  ELSE mapped(j)
      public == {j \in DOMAIN fields : ~fields[j].ignorePublic}
  IN  [validity |-> [j \in public |-> chain(j)],
       fields |-> [j \in DOMAIN fields |->
                     IF j \in public /\ given(j)
                     THEN [fields[j] EXCEPT !.val = chain(j)]
                     ELSE fields[j]]]

\* validity = swiz.defToValve(def) for the definitions of the Swiz; log keeps
\* the validity[group] that each call returned, and schema is the one of the
\* last call
callDefToValve ==
  /\ pc = "compile"
  /\ calls < MaxCompiles
  /\ LET r == defToValve(swiz.defs[1].def.fields)
     IN  /\ swiz' = [swiz EXCEPT !.defs[1].def.fields = r.fields]
         /\ schema' = r.validity
         /\ log' = Append(log, r.validity)
  /\ calls' = calls + 1
  /\ UNCHANGED <<finalValidator, baton, customValidators, inner, obj, existing,
                 call, stack, parentKeys, memo, stepIdx, cleaned, result, prev,
                 pc>>

\* the fields offered to defToValve: with and without a chain given as val,
\* an enumeration, a src and ignorePublic
CompileFields ==
  LET plain(name, src, map) == F(name, src, FALSE, name, name, map)
  IN  {[plain("state", src, map) EXCEPT !.val = val, !.ignorePublic = ip] :
         src \in {NULL, "st"}, map \in {<< >>, EnumMap},
         val \in {NullV, isString(Chain), optional(Chain)}, ip \in BOOLEAN}

\* the definitions offered: a Node with an id and one of the fields above
CompileDefs ==
  {<<O("Node", "node", "nodes",
       <<[F("id", src, TRUE, "id", "id", << >>) EXCEPT !.val = val], f>>)>> :
     src \in {NULL, "hash_id"}, val \in {NullV, isInt(Chain)},
     f \in CompileFields}

InitCompile ==
  /\ schema = << >>
  /\ finalValidator = FALSE
  /\ obj = EmptyObj
  /\ existing = EmptyObj
  /\ call = NoCall
  /\ stack = << >>
  /\ parentKeys = << >>
  /\ memo = Undef
  /\ stepIdx = 0
  /\ cleaned = Undef
  /\ log = << >>
  /\ result = NoResult
  /\ prev = NoPrev
  /\ calls = 0
  /\ baton = Str("aBaton")
  /\ inner = NoInner
  /\ swiz \in {[NoSwiz EXCEPT !.defs = Swiz(def)] : def \in CompileDefs}
  /\ customValidators = Registered
  /\ pc = "compile"

NextCompile == callDefToValve

SpecCompile == InitCompile /\ [][NextCompile]_vars

\* schemas with a port or an address pair, at the top level or in a
\* sub-schema
PortSchemas ==
  {<<Field("port", ChainNode(c))>> :
     c \in {isPort(Chain), optional(isPort(Chain))}}
  \cup {<<Field("pair", ChainNode(isAddressPair(Chain)))>>,
        <<Field("a", SubNode(<<Field("port", ChainNode(isPort(Chain)))>>))>>}

\* the values offered to an isPort step
PortValues ==
  {Num(-1), Num(0), Num(1), Num(80), Num(65535), Num(65536), NaNV, NullV,
   Str("0"), Str("1"), Str("80"), Str("65535"), Str("65536"), Str("-1"),
   Str("abc"), Str(""), Str("80abc"), Str("1.5")}

\* the strings offered to an isAddressPair step
PairValues == {Str(s) : s \in DOMAIN SplitPair} \cup {Str("127.0.0.1")}

\* the input objects offered to a schema of PortSchemas
PortInputs(fields) ==
  LET ports == {EmptyObj} \cup {("port" :> v) : v \in PortValues}
  IN  CASE fields[1].key = "port" -> ports
        [] fields[1].key = "pair" ->
             {EmptyObj} \cup {("pair" :> v) : v \in PairValues}
        [] OTHER -> {EmptyObj, ("a" :> NullV)} \cup {("a" :> Obj(o)) : o \in ports}

InitPort ==
  /\ schema \in PortSchemas
  /\ finalValidator \in BOOLEAN
  /\ obj \in PortInputs(schema)
  /\ existing = EmptyObj
  /\ call = NoCall
  /\ stack = << >>
  /\ parentKeys = << >>
  /\ memo = Undef
  /\ stepIdx = 0
  /\ cleaned = Undef
  /\ log = << >>
  /\ result = NoResult
  /\ prev = NoPrev
  /\ calls = 0
  /\ baton = Str("aBaton")
  /\ inner = NoInner
  /\ swiz = NoSwiz
  /\ customValidators = Registered
  /\ pc = "idle"

SpecPort == InitPort /\ [][Next]_vars

\* a schema with an enumerated field "state", at the top level or in a
\* sub-schema
EnumSchemas ==
  {<<Field("state", ChainNode(c))>> :
     c \in {enumerated(Chain), optional(enumerated(Chain))}}
  \cup {<<Field("a", SubNode(<<Field("state", ChainNode(enumerated(Chain)))>>))>>}

\* the values offered to an enumerated step
EnumValues ==
  {Str("inactive"), Str("active"), Str("x"), Str(""), Num(0), Num(1), NullV,
   Arr(<<Str("active")>>), Arr(<< >>)}

\* the input objects offered to a schema of EnumSchemas
EnumInputs(fields) ==
  LET states == {EmptyObj} \cup {("state" :> v) : v \in EnumValues}
  IN  IF fields[1].val.kind = "chain" THEN states
      ELSE {EmptyObj, ("a" :> NullV)} \cup {("a" :> Obj(o)) : o \in states}

InitEnum ==
  /\ schema \in EnumSchemas
  /\ finalValidator \in BOOLEAN
  /\ obj \in EnumInputs(schema)
  /\ existing = EmptyObj
  /\ call = NoCall
  /\ stack = << >>
  /\ parentKeys = << >>
  /\ memo = Undef
  /\ stepIdx = 0
  /\ cleaned = Undef
  /\ log = << >>
  /\ result = NoResult
  /\ prev = NoPrev
  /\ calls = 0
  /\ baton = Str("aBaton")
  /\ inner = NoInner
  /\ swiz = NoSwiz
  /\ customValidators = Registered
  /\ pc = "idle"

\* the caller stores the state a check has cleaned in a Node object and has
\* the Swiz build it
buildObjectOfCleaned ==
  /\ pc = "done"
  /\ result.kind = "callback"
  /\ result.err = NoErr
  /\ HasOwn(result.cleaned, "state")
  /\ swiz.built = Pending
  /\ LET x == Tagged("Node", [hash_id |-> Str("a"),
                              state |-> Get(result.cleaned, "state"),
                              tags |-> NullV, options |-> NullV,
                              children |-> NullV])
     IN  swiz' = [swiz EXCEPT !.x = x, !.built = _buildObject(x)]
  /\ UNCHANGED ValveVars

NextEnum == Next \/ buildObjectOfCleaned

SpecEnum == InitEnum /\ [][NextEnum]_vars

\* a function-valued property that calls its callback later: id names the
\* call among the ones in flight
Deferred(id, err, value) ==
  [t |-> "function", err |-> err, value |-> value, id |-> id]

IsDeferred(v) == v.t = "function" /\ "id" \in DOMAIN v

\* the place of id in the order in which the deferred calls completed
PlaceOf(id, order) == CHOOSE i \in DOMAIN order : order[i] = id

\* the values _buildObject recurses on, in the order in which async.map and
\* async.forEach start them, with the index or key their result is stored at
Parts(v) ==
  CASE v.t = "arr" -> [i \in DOMAIN v.a |-> [dst |-> i, v |-> v.a[i]]]
    [] HasSerializerType(v) ->
         LET Recursed(field) ==
               /\ ~Filtered(field)
               /\ EnumKey(field, Get(v, SrcOf(field))) = NULL
             fields == SelectSeq(DefOf(v.getSerializerType).fields, Recursed)
         IN  [i \in DOMAIN fields |->
                [dst |-> fields[i].name, v |-> Get(v, SrcOf(fields[i]))]]
    [] OTHER ->
         LET keys == ObjectKeys(v.o)
         IN  [i \in DOMAIN keys |-> [dst |-> keys[i], v |-> v.o[keys[i]]]]

\* result[dst] = k for the enumerated fields of a tagged object
EnumResults(v) ==
  IF ~HasSerializerType(v) THEN EmptyObj
  ELSE LET fields == DefOf(v.getSerializerType).fields
           hits == {i \in DOMAIN fields :
                      /\ ~Filtered(fields[i])
                      /\ EnumKey(fields[i], Get(v, SrcOf(fields[i]))) # NULL}
       IN  [k \in {fields[i].name : i \in hits} |->
              LET i == CHOOSE j \in hits : fields[j].name = k
              IN  Str(EnumKey(fields[i], Get(v, SrcOf(fields[i]))))]

\* results stored in the order in which the members completed
StoreAsCompleted(rs, stored) ==
  LET rank(i) == Cardinality({j \in stored :
                                \/ rs[j].at < rs[i].at
                                \/ rs[j].at = rs[i].at /\ j <= i})
  IN  [k \in 1..Cardinality(stored) |->
         rs[CHOOSE i \in stored : rank(i) = k].value]

\* async.map: results[x.index] = v for the members that have called back
StoreResults(rs, stored) ==
  LET n == IF stored = {} THEN 0
           ELSE CHOOSE i \in stored : \A j \in stored : j <= i
  IN  [i \in 1..n |-> IF i \in stored THEN rs[i].value ELSE Undef]

\* the result object of a level: the values of the parts that called back
Assemble(v, parts, rs, stored) ==
  LET o == [k \in {parts[i].dst : i \in stored} |->
              rs[CHOOSE i \in stored : parts[i].dst = k].value]
  IN  CASE v.t = "arr" -> Arr(StoreResults(rs, stored))
        [] HasSerializerType(v) ->
             Built(v.getSerializerType, o @@ EnumResults(v))
        [] OTHER -> Obj(o)

RECURSIVE Progress(_, _, _)
\* Swiz.prototype._buildObject on v, started when `from` deferred calls had
\* completed, after the deferred calls of order have completed in that
\* order: whether its callback has been invoked (st), after how many
\* completions (at), with what (err, value), and the deferred calls invoked
Progress(v, order, from) ==
  CASE IsDeferred(v) ->
         IF \A i \in DOMAIN order : order[i] # v.id
         THEN [st |-> "pending", at |-> from, err |-> NullV, value |-> Undef,
               started |-> {v.id}]
         ELSE IF v.err # NullV
              THEN [st |-> "called", at |-> PlaceOf(v.id, order),
                    err |-> v.err, value |-> Undef, started |-> {v.id}]
              ELSE LET r == Progress(v.value, order, PlaceOf(v.id, order))
                   IN  [r EXCEPT !.started = @ \cup {v.id}]
    [] v.t = "function" /\ ~IsDeferred(v) ->
         IF v.err # NullV
         THEN [st |-> "called", at |-> from, err |-> v.err, value |-> Undef,
               started |-> {}]
         ELSE Progress(v.value, order, from)
    [] HasSerializerType(v) /\ DefOf(v.getSerializerType) = NullV ->
         [st |-> "called", at |-> from,
          err |-> Str("No definition for this type; no way to serialize "
                      \o v.getSerializerType),
          value |-> Undef, started |-> {}]
    [] v.t \in {"arr", "obj"}
         /\ ~(HasSerializerType(v) /\ DefOf(v.getSerializerType) = NullV) ->
         LET parts == Parts(v)
             rs == [i \in DOMAIN parts |-> Progress(parts[i].v, order, from)]
             started == UNION {rs[i].started : i \in DOMAIN parts}
             failed == {i \in DOMAIN parts :
                          rs[i].st = "called" /\ rs[i].err # NullV}
             Before(i, j) == \/ rs[i].at < rs[j].at
                             \/ rs[i].at = rs[j].at /\ i <= j
         IN  IF failed # {}
             THEN LET first == CHOOSE i \in failed :
                                  \A j \in failed : Before(i, j)
                      stored == {i \in DOMAIN parts :
                                   rs[i].st = "called" /\ Before(i, first)}
                  IN  [st |-> "called", at |-> rs[first].at,
                       err |-> rs[first].err,
                       value |-> Assemble(v, parts, rs, stored),
                       started |-> started]
             ELSE IF \E i \in DOMAIN parts : rs[i].st = "pending"
             THEN [st |-> "pending", at |-> from, err |-> NullV,
                   value |-> Undef, started |-> started]
             ELSE LET ats == {from} \cup {rs[i].at : i \in DOMAIN parts}
                  IN  [st |-> "called",
                       at |-> CHOOSE a \in ats : \A b \in ats : b <= a,
                       err |-> NullV,
                       value |-> Assemble(v, parts, rs, DOMAIN parts),
                       started |-> started]
    [] OTHER -> [st |-> "called", at |-> from, err |-> NullV, value |-> v,
                 started |-> {}]

\* the invocation of the callback of buildObject that the completions up to
\* now bring about, as an event of the log
BuiltEvent(p, order) ==
  [ev |-> "built", err |-> p.err, value |-> p.value, after |-> order]

\* swiz.buildObject(x, callback) on a structure with deferred properties:
\* everything that does not wait for a deferred call runs at once
buildObjectDeferred ==
  /\ pc = "defer"
  /\ swiz.built = Pending
  /\ LET p == Progress(swiz.x, << >>, 0)
     IN  /\ swiz' = [swiz EXCEPT !.built = [building |-> TRUE,
                                            order |-> << >>]]
         /\ log' = IF p.st = "called" THEN Append(log, BuiltEvent(p, << >>))
                   ELSE log
  /\ UNCHANGED <<schema, finalValidator, baton, customValidators, obj,
                 existing, call, stack, parentKeys, memo, stepIdx, cleaned,
                 result, prev, calls, inner, pc>>

\* a deferred call that was invoked calls its callback: the levels above it
\* that were waiting for it alone, or whose first error it is, call theirs
deferredCompletes ==
  /\ pc = "defer"
  /\ swiz.built # Pending
  /\ LET order == swiz.built.order
         before == Progress(swiz.x, order, 0)
     IN  \E id \in before.started :
            /\ \A i \in DOMAIN order : order[i] # id
            /\ LET next == Append(order, id)
                   after == Progress(swiz.x, next, 0)
               IN  /\ swiz' = [swiz EXCEPT !.built.order = next]
                   /\ log' = IF before.st = "pending" /\ after.st = "called"
                             THEN Append(log, BuiltEvent(after, next))
                             ELSE log
  /\ UNCHANGED <<schema, finalValidator, baton, customValidators, obj,
                 existing, call, stack, parentKeys, memo, stepIdx, cleaned,
                 result, prev, calls, inner, pc>>

\* Node objects whose properties are deferred: alone and several at once,
\* succeeding and failing, yielding deferred properties in turn, as members
\* of an array, and yielding an object of a type that is not registered
DeferredInputs ==
  LET opts(s) == Tagged("NodeOpts", ("opt1" :> s))
      node(t, o, c) ==
        Tagged("Node", [hash_id |-> Str("a"), state |-> Num(1), tags |-> t,
                        options |-> o, children |-> c])
      tags == {NullV, Deferred("f", NullV, Arr(<<Str("a")>>)),
               Deferred("f", Str("f failed"), Undef)}
      options == {opts(Str("a")),
                  Deferred("g", NullV, opts(Deferred("h", NullV, Str("b")))),
                  Deferred("g", Str("g failed"), Undef),
                  Deferred("g", NullV, Tagged("Unknown", EmptyObj))}
      children == {NullV,
                   Arr(<<Deferred("i", NullV, Str("a")),
                         Deferred("j", NullV, Str("b"))>>),
                   Arr(<<Deferred("i", Str("i failed"), Undef),
                         Deferred("j", Str("j failed"), Undef)>>),
                   Arr(<<Deferred("i", NullV, opts(Str("a"))),
                         Function(NullV, Str("b"))>>)}
  IN  {node(t, o, c) : t \in tags, o \in options, c \in children}
      \cup {Obj(("k" :> Deferred("f", NullV, Str("a")))
                @@ ("l" :> Deferred("g", NullV, Str("b")))),
            Arr(<<Deferred("f", NullV, Str("a")),
                  Deferred("g", NullV, Str("b"))>>)}

InitDefer ==
  /\ schema = <<Field("a", ChainNode(Chain))>>
  /\ finalValidator = FALSE
  /\ obj = EmptyObj
  /\ existing = EmptyObj
  /\ call = NoCall
  /\ stack = << >>
  /\ parentKeys = << >>
  /\ memo = Undef
  /\ stepIdx = 0
  /\ cleaned = Undef
  /\ log = << >>
  /\ result = NoResult
  /\ prev = NoPrev
  /\ calls = 0
  /\ baton = Str("aBaton")
  /\ inner = NoInner
  /\ swiz \in {[NoSwiz EXCEPT !.x = x] : x \in DeferredInputs}
  /\ customValidators = Registered
  /\ pc = "defer"

NextDefer == buildObjectDeferred \/ deferredCompletes

SpecDefer == InitDefer /\ [][NextDefer]_vars


(***************************************************************************)
(* Properties.                                                             *)
(***************************************************************************)
RECURSIVE NodeAt(_, _)
\* the schema node of the field reached by the non-empty key path p
NodeAt(fields, p) ==
  IF Len(p) = 1 THEN NodeOf(fields, p[1])
  ELSE NodeAt(NodeOf(fields, p[1]).fields, Tail(p))

RECURSIVE ValueAt(_, _)
\* the input value reached by the key path p
ValueAt(v, p) == IF Len(p) = 0 THEN v ELSE ValueAt(Get(v, p[1]), Tail(p))

FieldOf(e) == Append(e.path, e.key)

Max(S) == CHOOSE x \in S : \A y \in S : y <= x

\* the indices up to i of the step events of the field of log[i]
StepsUpTo(i) ==
  {j \in 1..i : /\ log[j].ev = "step"
                /\ log[j].path = log[i].path
                /\ log[j].key = log[i].key}

StepOutput(j) == func(log[j].name, log[j].value)

\* C1, for one invoked step: it is the next step in stored order and gets
\* the input value (first step) or the output of the step before it
StepInOrder(i) ==
  LET n == Cardinality(StepsUpTo(i))
      c == NodeAt(schema, FieldOf(log[i])).chain
  IN  /\ n <= Len(c.validators)
      /\ log[i].name = c.validators[n].name
      /\ log[i].pos = c.validators[n].pos
      /\ IF n = 1
         THEN log[i].value = ValueAt(Obj(obj), FieldOf(log[i]))
         ELSE LET p == Max(StepsUpTo(i) \ {i})
              IN  StepOutput(p).ok /\ log[i].value = StepOutput(p).v

\* C1, for one chain result: it is the error of the last invoked step, or
\* the output of the last step of the chain (the input for an empty chain)
ChainResultRight(i) ==
  LET S == StepsUpTo(i)
      c == NodeAt(schema, FieldOf(log[i])).chain
  IN  IF S = {}
      THEN /\ Len(c.validators) = 0
           /\ log[i].res = Ok(ValueAt(Obj(obj), FieldOf(log[i])))
      ELSE /\ log[i].res = StepOutput(Max(S))
           /\ StepOutput(Max(S)).ok => Cardinality(S) = Len(c.validators)

\* C1: a chain invokes its steps in stored order, each with the value the
\* step before it returned; the first step that reports an error ends the
\* chain with that error as result; otherwise the result is the last output
C1_ChainThreadsInOrder ==
  \A i \in DOMAIN log :
     /\ log[i].ev = "step" => StepInOrder(i)
     /\ log[i].ev = "chain" => ChainResultRight(i)

\* a chain whose first step converted the value and whose second step then
\* failed, with a third step that was never invoked
C1_Witness ==
  \E i \in DOMAIN log :
     /\ log[i].ev = "chain"
     /\ ~log[i].res.ok
     /\ Cardinality(StepsUpTo(i)) = 2
     /\ Len(NodeAt(schema, FieldOf(log[i])).chain.validators) = 3
     /\ \E j \in StepsUpTo(i) : StepOutput(j).ok /\ StepOutput(j).v # log[j].value

RECURSIVE FieldList(_, _)
\* the key paths of all fields of a schema, in the order checkSchema takes
\* them: the fields of a sub-schema follow the sub-schema field itself
FieldList(fields, path) ==
  IF Len(fields) = 0 THEN << >>
  ELSE LET f == fields[1]
           p == Append(path, f.key)
       IN  <<p>>
           \o (IF f.val.kind = "schema" THEN FieldList(f.val.fields, p) ELSE << >>)
           \o FieldList(Tail(fields), path)

Rank(p) ==
  LET L == FieldList(schema, << >>) IN CHOOSE n \in DOMAIN L : L[n] = p

HasField(e) == e.ev \in {"step", "chain", "error"}

\* C2: the fields are handled one after the other in schema key order; an
\* error reported for a field is the last thing the call does before its
\* callback gets that error record and no cleaned object: no step of a later
\* field, no final validator
C2_FirstFieldErrorEndsCheck ==
  /\ \A i, j \in DOMAIN log :
        (i < j /\ HasField(log[i]) /\ HasField(log[j]))
           => Rank(FieldOf(log[i])) <= Rank(FieldOf(log[j]))
  /\ \A i \in DOMAIN log :
        log[i].ev = "error" =>
           /\ i = Len(log)
           /\ \A j \in DOMAIN log : log[j].ev # "final"
           /\ log[i].err.key = log[i].key
           /\ pc = "done"
           /\ result = Callback(log[i].err, Undef)

\* a field failed in a check with a final validator while a later field,
\* present in the input, has a chain with steps
C2_Witness ==
  /\ pc = "done"
  /\ call.op = "check"
  /\ finalValidator
  /\ Len(log) > 0
  /\ log[Len(log)].ev = "error"
  /\ LET L == FieldList(schema, << >>)
     IN  \E n \in DOMAIN L :
            /\ n > Rank(FieldOf(log[Len(log)]))
            /\ NodeAt(schema, L[n]).kind = "chain"
            /\ Len(NodeAt(schema, L[n]).chain.validators) > 0
            /\ ValueAt(Obj(obj), L[n]) # Undef

\* C3: the parentKeys of a reported field error are the keys of the
\* sub-schemas that enclose the failing field, outermost first
C3_ParentKeysArePath ==
  \A i \in DOMAIN log :
     log[i].ev = "error" => log[i].err.parentKeys = log[i].path

Succeeded == pc = "done" /\ result.kind = "callback" /\ result.err = NoErr

\* C4, strict part: a strict check of an input with a key the schema does
\* not have reports that key before any step or final validator is invoked
C4_StrictRejectsFirst ==
  (call.op = "check" /\ call.strict /\ UnknownKeys(obj, schema) # {}) =>
     /\ pc = "done"
     /\ log = << >>
     /\ \E k \in UnknownKeys(obj, schema) : result = Callback(NotAllowed(k), Undef)

\* C4 as claimed: the strict part, and after a successful non-strict check
\* no unknown key of the input is a key of the cleaned object
C4_UnknownKeyNeverInCleaned ==
  /\ C4_StrictRejectsFirst
  /\ (Succeeded /\ call.op = "check" /\ ~call.strict) =>
        \A k \in UnknownKeys(obj, schema) : ~HasOwn(result.cleaned, k)

\* C4 as amended: the strict part, and after a successful non-strict check
\* an unknown key of the input is a key of the cleaned object only as the
\* rename target of a checked schema field, holding that field's result
C4_UnknownKeyOnlyAsRenameTarget ==
  /\ C4_StrictRejectsFirst
  /\ (Succeeded /\ call.op = "check" /\ ~call.strict) =>
        \A k \in UnknownKeys(obj, schema) :
           HasOwn(result.cleaned, k) =>
              \E i \in DOMAIN log :
                 /\ log[i].ev = "chain"
                 /\ log[i].path = << >>
                 /\ log[i].res.ok
                 /\ NodeOf(schema, log[i].key).chain.target = k
                 /\ Get(result.cleaned, k) = log[i].res.v

\* a strict check rejected an unknown key although the schema has a chain
\* with steps and a final validator is registered
C4_Witness ==
  /\ pc = "done"
  /\ call.op = "check"
  /\ call.strict
  /\ finalValidator
  /\ result = Callback(NotAllowed(OtherKey), Undef)
  /\ Len(schema[1].val.chain.validators) > 0
  /\ HasOwn(Obj(obj), "a")

Front(q) == SubSeq(q, 1, Len(q) - 1)

Last(q) == q[Len(q)]

\* the chain fields of the schema that are marked optional
OptionalFields ==
  LET L == FieldList(schema, << >>)
  IN  {L[n] : n \in {m \in DOMAIN L :
                       /\ NodeAt(schema, L[m]).kind = "chain"
                       /\ NodeAt(schema, L[m]).chain.isOptional}}

EventsOf(p, kinds) ==
  {i \in DOMAIN log : log[i].ev \in kinds /\ FieldOf(log[i]) = p}

\* C5: an optional field given as null passes with the value null and none
\* of its steps invoked; an optional field that is absent passes and leaves
\* no entry in the cleaned object
C5_OptionalNullAndAbsent ==
  \A p \in OptionalFields :
     LET holder == ValueAt(Obj(obj), Front(p))
         target == NodeAt(schema, p).chain.target
         out == ValueAt(result.cleaned, Front(p))
     IN  /\ (holder.t = "obj" /\ Get(holder, Last(p)) = NullV) =>
              /\ EventsOf(p, {"step", "error"}) = {}
              /\ Succeeded =>
                   \/ Get(out, Last(p)) = NullV
                   \/ target # NULL /\ Get(out, target) = NullV
         /\ (holder.t = "obj" /\ ~HasOwn(holder, Last(p))) =>
              /\ EventsOf(p, {"step", "error"}) = {}
              /\ Succeeded =>
                   /\ ~HasOwn(out, Last(p))
                   /\ (target # NULL /\ HasOwn(out, target)) =>
                         \E i \in DOMAIN log :
                            /\ log[i].ev = "chain"
                            /\ log[i].path = Front(p)
                            /\ log[i].res.ok
                            /\ NodeAt(schema, FieldOf(log[i])).chain.target = target
                            /\ Get(out, target) = log[i].res.v

\* a check succeeded on null for an optional field whose chain has a step
\* besides the optional marker
C5_Witness ==
  /\ Succeeded
  /\ call.op = "check"
  /\ \E p \in OptionalFields :
        /\ ValueAt(Obj(obj), p) = NullV
        /\ Len(NodeAt(schema, p).chain.validators) > 1
        /\ Get(result.cleaned, Last(p)) = NullV

\* C6: TRUE when a missing key of schema node n is to be reported
MissingReported(n, partial) ==
  LET isOptional == n.kind = "chain" /\ n.chain.isOptional
      isUpdateRequired == n.kind = "chain" /\ n.chain.isUpdateRequired
  IN  IF partial THEN isUpdateRequired /\ ~isOptional ELSE ~isOptional

\* C6: for a schema key that the input does not have, check reports
\* 'Missing required key (key)' unless the chain is optional; checkPartial
\* skips the key silently unless the chain is updateRequired and not optional
C6_MissingKeyRule ==
  [][(InIterator /\ Top.obj.t = "obj" /\ ~HasOwn(Top.obj, CurKey)) =>
        IF MissingReported(CurNode, isPartial)
        THEN /\ pc' = "done"
             /\ result'.kind = "callback"
             /\ result'.err.key = CurKey
             /\ result'.err.message = MissingKey(CurKey)
        ELSE /\ pc' = "reduce"
             /\ stack' = [stack EXCEPT ![Len(stack)].i = @ + 1]
             /\ log' = log
             /\ result' = result]_vars

\* checkPartial reported a missing key
C6_Witness ==
  /\ pc = "done"
  /\ call.op = "checkPartial"
  /\ Len(log) > 0
  /\ log[Len(log)].ev = "error"
  /\ log[Len(log)].err.message = MissingKey(log[Len(log)].key)

\* the chain fields of the schema whose key the input has
GivenChainFields ==
  LET L == FieldList(schema, << >>)
  IN  {L[n] : n \in {m \in DOMAIN L :
                       /\ NodeAt(schema, L[m]).kind = "chain"
                       /\ HasOwn(ValueAt(Obj(obj), Front(L[m])), Last(L[m]))}}

\* C7: in the cleaned object of a successful call the entry of a field with
\* a rename target is stored under the target and not under the field name,
\* the entry of a field without one under the field name
C7_StoredUnderRenameTarget ==
  Succeeded =>
     \A p \in GivenChainFields :
        LET target == NodeAt(schema, p).chain.target
            out == ValueAt(result.cleaned, Front(p))
        IN  IF target # NULL
            THEN HasOwn(out, target) /\ ~HasOwn(out, Last(p))
            ELSE HasOwn(out, Last(p))

RECURSIVE ChainValue(_, _)
\* the value a chain with the given steps yields for v when no step fails
ChainValue(steps, v) ==
  IF Len(steps) = 0 THEN v
  ELSE ChainValue(Tail(steps), func(steps[1].name, v).v)

RECURSIVE ExpectedCleaned(_, _)
\* the object check is to build from input v when every field check passes
ExpectedCleaned(v, fields) ==
  IF Len(fields) = 0 THEN EmptyObj
  ELSE LET f == Last(fields)
           rest == ExpectedCleaned(v, Front(fields))
       IN  IF ~HasOwn(v, f.key) THEN rest
           ELSE IF f.val.kind = "schema"
           THEN Put(rest, f.key, Obj(ExpectedCleaned(Get(v, f.key), f.val.fields)))
           ELSE IF f.val.chain.isOptional /\ Get(v, f.key) = NullV
           THEN Put(rest, f.key, NullV)
           ELSE Put(rest, CleanedKey(f.key, f.val.chain),
                    ChainValue(f.val.chain.validators, Get(v, f.key)))

FinalEvents == {i \in DOMAIN log : log[i].ev = "final"}

BothEnded ==
  /\ pc \in {"done", "thrown"}
  /\ {prev.op, call.op} = {"check", "checkPartial"}
  /\ ~prev.strict
  /\ ~call.strict

CheckRun == IF call.op = "check" THEN [result |-> result, log |-> log] ELSE prev

PartialRun ==
  IF call.op = "checkPartial" THEN [result |-> result, log |-> log] ELSE prev

FinalsIn(l) == {i \in DOMAIN l : l[i].ev = "final"}

\* TRUE when l ends with the report of a missing field that checkPartial
\* accepts: a sub-schema, or a chain that is not marked updateRequired
EndsWithAcceptedMissing(l) ==
  /\ Len(l) > 0
  /\ Last(l).ev = "error"
  /\ Last(l).err.message = MissingKey(Last(l).key)
  /\ LET n == NodeAt(schema, FieldOf(Last(l)))
     IN  n.kind = "schema" \/ ~n.chain.isUpdateRequired

\* C9 as claimed: unless check ends with the report of a missing field that
\* checkPartial accepts, both invoke the same steps and the final validator
\* alike, and deliver the same result when no final validator was invoked
C9_PartialSameAsCheck ==
  (BothEnded /\ ~EndsWithAcceptedMissing(CheckRun.log)) =>
     /\ (FinalsIn(CheckRun.log) = {}) = (FinalsIn(PartialRun.log) = {})
     /\ FinalsIn(CheckRun.log) = {} =>
           /\ PartialRun.log = CheckRun.log
           /\ PartialRun.result = CheckRun.result

\* C9 as amended: checkPartial invokes no final validator; unless check ends
\* with the report of a missing field that checkPartial accepts, checkPartial
\* invokes the same steps and delivers what the field checks of check
\* delivered: the same error, or the object check hands to its final
\* validator (the result of check when none is registered); a missing field
\* that checkPartial accepts is not reported by it
C9_PartialIsCheckWithoutFinal ==
  BothEnded =>
     /\ FinalsIn(PartialRun.log) = {}
     /\ IF EndsWithAcceptedMissing(CheckRun.log)
        THEN /\ Len(PartialRun.log) >= Len(CheckRun.log) - 1
             /\ SubSeq(PartialRun.log, 1, Len(CheckRun.log) - 1)
                  = SubSeq(CheckRun.log, 1, Len(CheckRun.log) - 1)
             /\ \A i \in DOMAIN PartialRun.log :
                   PartialRun.log[i].ev = "error" =>
                      FieldOf(PartialRun.log[i]) # FieldOf(Last(CheckRun.log))
        ELSE IF FinalsIn(CheckRun.log) = {}
        THEN /\ PartialRun.log = CheckRun.log
             /\ PartialRun.result = CheckRun.result
        ELSE /\ PartialRun.log = Front(CheckRun.log)
             /\ PartialRun.result = Callback(NoErr, Last(CheckRun.log).value)

\* the final validator failed the check of an input, and checkPartial then
\* accepted the same input after running a step
C9_Witness ==
  /\ pc = "done"
  /\ call.op = "checkPartial"
  /\ prev.op = "check"
  /\ prev.result = Callback(FinalError, Undef)
  /\ result.err = NoErr
  /\ Len(log) > 0

\* the own keys of the partial object whose chain is immutable and whose
\* value differs from the existing value under the rename target, or key
ChangedImmutable ==
  {k \in DOMAIN obj :
     /\ k \in KeysOf(schema)
     /\ NodeOf(schema, k).kind = "chain"
     /\ NodeOf(schema, k).chain.isImmutable
     /\ LET t == NodeOf(schema, k).chain.target
        IN  Get(Obj(existing), IF t # NULL THEN t ELSE k) # obj[k]}

\* C10: checkUpdate fails with 'Attempted to mutate immutable field' for a
\* key of the partial object that changes an immutable field, without
\* invoking the final validator or delivering a merged object; when no
\* immutable field is changed it does not fail with that error
C10_ImmutableFieldsGuarded ==
  call.op = "checkUpdate" =>
     IF ChangedImmutable # {}
     THEN /\ pc = "done"
          /\ log = << >>
          /\ \E k \in ChangedImmutable : result = Callback(Immutable(k), Undef)
     ELSE \/ pc = "final"
          \/ result.kind = "throw"
          \/ result.err \in {NoErr, FinalError}

\* checkUpdate rejected a value that equals the existing value under the
\* field name and differs from the one under the rename target
C10_Witness ==
  /\ pc = "done"
  /\ call.op = "checkUpdate"
  /\ finalValidator
  /\ \E k \in ChangedImmutable :
        /\ result = Callback(Immutable(k), Undef)
        /\ NodeOf(schema, k).chain.target # NULL
        /\ Get(Obj(existing), k) = obj[k]

\* C11: no step of check, checkPartial or checkUpdate changes the caller's
\* input (or partial) object or the caller's existing object; they have the
\* same keys and values when the call ends, in success and in failure
C11_CallerObjectsUnchanged == [][obj' = obj /\ existing' = existing]_vars

\* a checkUpdate has delivered a merged object that differs from the existing
\* object and from the partial object
C11_Witness ==
  /\ pc = "done"
  /\ call.op = "checkUpdate"
  /\ result.kind = "callback"
  /\ result.err = NoErr
  /\ result.cleaned # Obj(existing)
  /\ result.cleaned # Obj(obj)
  /\ DOMAIN obj # {}
  /\ DOMAIN existing # {}

\* existing[chain.target || key] for schema field f
ExistingValue(f) ==
  LET n == NodeOf(schema, f)
      t == IF n.kind = "chain" /\ n.chain.target # NULL THEN n.chain.target ELSE f
  IN  IF t \in DOMAIN existing THEN existing[t] ELSE Undef

ExpectedMerged ==
  Obj([f \in KeysOf(schema) |->
         IF f \in DOMAIN obj THEN obj[f] ELSE ExistingValue(f)])

\* C12: when no immutable field is changed, checkUpdate builds an object with
\* exactly the schema fields, each with the partial object's value when the
\* partial object has the key and else the existing object's value under the
\* rename target (or the field name); the final validator, when registered,
\* is invoked once with that object and decides the result; otherwise the
\* object itself is delivered
C12_MergePartialOverExisting ==
  (call.op = "checkUpdate" /\ ChangedImmutable = {}) =>
     /\ cleaned = ExpectedMerged
     /\ pc = "final" => log = << >>
     /\ (pc # "final" /\ finalValidator) =>
          /\ log = <<FinalEvent(ExpectedMerged)>>
          /\ \/ result.kind = "throw"
             \/ \E out \in FinalOutcomes(ExpectedMerged) :
                  result = Callback(out.err, out.value)
     /\ (pc # "final" /\ ~finalValidator) =>
          /\ log = << >>
          /\ result = Callback(NoErr, ExpectedMerged)

\* a merged object delivered without final validator: one field taken from
\* the existing object under its rename target, one taken from the partial
\* object over a different existing value, and a key of the partial object
\* that is no schema field left out
C12_Witness ==
  /\ pc = "done"
  /\ call.op = "checkUpdate"
  /\ ~finalValidator
  /\ result = Callback(NoErr, ExpectedMerged)
  /\ OtherKey \in DOMAIN obj
  /\ OtherKey \notin DOMAIN ExpectedMerged.o
  /\ OtherKey \in DOMAIN existing
  /\ \E f \in KeysOf(schema) \ DOMAIN obj :
        /\ NodeOf(schema, f).kind = "chain"
        /\ NodeOf(schema, f).chain.target = OtherKey
        /\ ExpectedMerged.o[f] = existing[OtherKey]
        /\ Get(Obj(existing), f) # existing[OtherKey]
  /\ \E g \in KeysOf(schema) \cap DOMAIN obj :
        /\ g \in DOMAIN existing
        /\ existing[g] # obj[g]

\* C13: check, checkPartial and checkUpdate never throw: whatever the input
\* object (a non-object under a sub-schema included) and whatever the final
\* validator reports, every call ends by invoking the callback
C13_CallsNeverThrow == result.kind # "throw"

\* the steps of chain c that numItems added
NumItemsSteps(c) ==
  {j \in DOMAIN c.validators : c.validators[j].name = "numItems"}

\* C14: a numItems call on a chain that already has a numItems constraint
\* throws and leaves the chain as it was: the first min and max stay in force
\* and no step is added
C14_SecondNumItemsThrows ==
  [][(/\ pc = "build"
      /\ calls' = calls + 1
      /\ call'.op = "numItems"
      /\ BuiltChain.numItemsValidator # NullV)
     => (result' = Thrown /\ schema' = schema)]_vars

\* the construction ended with a throw of numItems on a chain that has an
\* isArray step, one numItems step and the constraint of the first call
C14_Witness ==
  /\ pc = "thrown"
  /\ result = Thrown
  /\ call.op = "numItems"
  /\ Cardinality(NumItemsSteps(BuiltChain)) = 1
  /\ BuiltChain.numItemsValidator = [min |-> Num(1), max |-> Infinity]
  /\ \E j \in DOMAIN BuiltChain.validators :
        BuiltChain.validators[j].name = "isArray"

\* the isArray and isHash steps in the log that were handed a value of
\* their own type, on a chain with a numItems constraint
SizedContainerSteps ==
  {i \in DOMAIN log :
     /\ log[i].ev = "step"
     /\ \/ log[i].name = "isArray" /\ log[i].value.t = "arr"
        \/ log[i].name = "isHash" /\ log[i].value.t = "obj"
     /\ NodeAt(schema, FieldOf(log[i])).chain.numItemsValidator # NullV}

SizeOf(v) == IF v.t = "arr" THEN Len(v.a) ELSE Cardinality(DOMAIN v.o)

\* the member steps logged after position i
ItemsAfter(i) == {j \in DOMAIN log : j > i /\ log[j].ev = "item"}

\* C15: an isArray or isHash step on a chain with numItems(min, max),
\* whichever was added first, rejects a container with fewer than min or more
\* than max items with 'Object needs to have between <min> and <max> items',
\* and no step of the member chains is invoked; a container within the bounds
\* goes on to the member checks; without max there is no upper bound
C15_NumItemsBeforeMembers ==
  \A i \in SizedContainerSteps :
     LET n == NodeAt(schema, FieldOf(log[i])).chain.numItemsValidator
         size == SizeOf(log[i].value)
         msg == "Object needs to have between " \o ToString(n.min.n) \o " and "
                  \o (IF n.max = Infinity THEN "Infinity" ELSE ToString(n.max.n))
                  \o " items"
     IN  IF size < n.min.n \/ (n.max # Infinity /\ size > n.max.n)
         THEN /\ i + 2 = Len(log)
              /\ log[i + 1] = ChainEvent(log[i].path, log[i].key, Err(msg))
              /\ log[i + 2].ev = "error"
              /\ log[i + 2].err.message = msg
              /\ result = Callback(log[i + 2].err, Undef)
              /\ ItemsAfter(i) = {}
         ELSE \/ i = Len(log) /\ pc \in {"map", "hash"}
              \/ i < Len(log) /\ log[i + 1].ev = "item"

\* an array with more than max members was rejected by an isArray step that
\* was added before numItems
C15_Witness ==
  \E i \in SizedContainerSteps :
     LET c == NodeAt(schema, FieldOf(log[i])).chain
     IN  /\ pc = "done"
         /\ log[i].name = "isArray"
         /\ \E j \in DOMAIN c.validators :
               /\ c.validators[j].name = "numItems"
               /\ c.validators[j].pos > log[i].pos
         /\ c.numItemsValidator.max = Num(1)
         /\ SizeOf(log[i].value) = 2
         /\ result.err # NoErr
         /\ ItemsAfter(i) = {}

\* the isHash steps in the log whose value passed the type and size tests
HashSteps ==
  {i \in DOMAIN log :
     /\ log[i].ev = "step"
     /\ log[i].name = "isHash"
     /\ log[i].value.t = "obj"
     /\ \/ i = Len(log)
        \/ log[i + 1].ev # "chain"
        \/ log[i + 1].res.ok}

\* the step of the chain that logged step event i
StepOf(i) ==
  LET c == NodeAt(schema, FieldOf(log[i])).chain
  IN  c.validators[CHOOSE j \in DOMAIN c.validators :
                      c.validators[j].pos = log[i].pos]

\* the last of the member events that follow step event i without a break
SegmentEnd(i) ==
  Max({i} \cup {e \in (i + 1)..Len(log) :
                  \A j \in (i + 1)..e : log[j].ev = "item"})

\* the events of one part ("key" or "value") for key k in the segment of i,
\* as the steps that checkChain invoked
PartSteps(i, part, k) ==
  LET idx == {j \in (i + 1)..SegmentEnd(i) :
                log[j].part = part /\ log[j].at = k}
      nth(m) == CHOOSE j \in idx : Cardinality({x \in idx : x <= j}) = m
  IN  [m \in 1..Cardinality(idx) |->
         [name |-> log[nth(m)].name, pos |-> log[nth(m)].pos,
          value |-> log[nth(m)].value]]

\* the isHash step i is over: its iteration has ended
HashStepOver(i) == SegmentEnd(i) < Len(log) \/ pc # "hash"

\* C16, the general part, for the isHash step logged at i
HashPairsChecked(i) ==
  LET st == StepOf(i)
      h == log[i].value.o
      e == SegmentEnd(i)
      seen == {log[j].at : j \in (i + 1)..e}
      keyRun(k) == RunSteps(st.keyChain.validators, Str(k))
      valueRun(k) == RunSteps(st.valueChain.validators, h[k])
      failed == {k \in seen : ~keyRun(k).res.ok \/ ~valueRun(k).res.ok}
  IN  /\ seen \subseteq DOMAIN h
      /\ \A k \in seen :
            /\ PartSteps(i, "key", k) = keyRun(k).steps
            /\ PartSteps(i, "value", k) =
                 IF keyRun(k).res.ok THEN valueRun(k).steps ELSE << >>
      /\ \A k \in failed :
            LET msg == IF ~keyRun(k).res.ok
                       THEN "Key " \o k \o ": " \o keyRun(k).res.msg
                       ELSE "Value for key '" \o k \o "': "
                              \o valueRun(k).res.msg
            IN  /\ failed = {k}
                /\ log[e].at = k
                /\ e + 2 = Len(log)
                /\ log[e + 1] = ChainEvent(log[i].path, log[i].key, Err(msg))
                /\ result.kind = "callback"
                /\ result.err.message = msg
      /\ (failed = {} /\ HashStepOver(i)) => seen = DOMAIN h

\* the isHash(isString, valueChain) steps that were handed {a: 1} and have
\* checked its pair
OnePairSteps(valueChain) ==
  {i \in HashSteps :
     /\ StepOf(i).keyChain = isString(Chain)
     /\ StepOf(i).valueChain = valueChain
     /\ log[i].value = Obj([k \in {"a"} |-> Num(1)])
     /\ i < Len(log)}

ArraySteps ==
  {i \in DOMAIN log :
     /\ log[i].ev = "step"
     /\ log[i].name = "isArray"
     /\ log[i].value.t = "arr"
     /\ \/ i = Len(log)
        \/ log[i + 1].ev # "chain"
        \/ log[i + 1].res.ok}

\* the result of the member chain of step i for member j of its value
MemberResult(i, j) == RunSteps(StepOf(i).chain.validators, log[i].value.a[j]).res

\* the array an isArray step has to hand on when all member checks succeed
CleanedArray(i) ==
  Arr([j \in 1..Len(log[i].value.a) |-> MemberResult(i, j).v])

\* C17: when the checks of all members of an array succeed, the isArray step
\* hands on an array of the same length whose member j is the result of the
\* member chain for member j of the input, in whatever order the member
\* checks completed
C17_ArrayResultsInIndexOrder ==
  \A i \in ArraySteps :
     LET e == SegmentEnd(i)
     IN  (\A j \in 1..Len(log[i].value.a) : MemberResult(i, j).ok) =>
            /\ (e = Len(log) /\ pc = "chain") => memo = CleanedArray(i)
            /\ e < Len(log) =>
                 \/ log[e + 1].ev = "step" /\ log[e + 1].value = CleanedArray(i)
                 \/ log[e + 1].ev = "chain" /\ log[e + 1].res = Ok(CleanedArray(i))

\* the check of the second member of ['1', '2'] completed before the check
\* of the first, and the call delivered [1, 2]
C17_Witness ==
  /\ pc = "done"
  /\ result.kind = "callback"
  /\ result.err = NoErr
  /\ \E i \in ArraySteps :
        /\ log[i].value = Arr(<<Str("1"), Str("2")>>)
        /\ log[i + 1].at = 2
        /\ log[SegmentEnd(i)].at = 1
        /\ result.cleaned = Obj([k \in {log[i].key} |-> Arr(<<Num(1), Num(2)>>)])

\* C18: every step invoked during check and checkPartial, at the top level,
\* in a sub-schema and in the member chains of isArray and isHash, gets the
\* baton of the Valve as its second argument
C18_BatonReachesEveryStep ==
  call.op \in {"check", "checkPartial"} =>
     \A i \in DOMAIN log :
        log[i].ev \in {"step", "item"} => log[i].baton = baton

\* a check has invoked a step of a chain inside a sub-schema and a step of
\* the member chain of its isArray step
C18_Witness ==
  /\ call.op \in {"check", "checkPartial"}
  /\ baton = Str("aBaton")
  /\ \E i, j \in DOMAIN log :
        /\ log[i].ev = "step"
        /\ log[i].path # << >>
        /\ log[i].name = "isArray"
        /\ log[i].baton = Str("aBaton")
        /\ j > i
        /\ log[j].ev = "item"
        /\ log[j].baton = Str("aBaton")

RECURSIVE Strip(_)
\* a structure without the serializerType tag and without the keys that hold
\* null or undefined
Strip(v) ==
  CASE v.t = "arr" -> Arr([i \in DOMAIN v.a |-> Strip(v.a[i])])
    [] v.t = "obj" ->
         Obj([k \in {x \in DOMAIN v.o : ~Throws(v.o[x])} |-> Strip(v.o[k])])
    [] OTHER -> v

RECURSIVE NoDeferred(_)
\* a structure that holds no function
NoDeferred(v) ==
  CASE v.t = "function" -> FALSE
    [] v.t = "arr" -> \A i \in DOMAIN v.a : NoDeferred(v.a[i])
    [] v.t = "obj" -> \A k \in DOMAIN v.o : NoDeferred(v.o[k])
    [] OTHER -> TRUE

RECURSIVE OnlyTagged(_)
\* a structure of scalars, sequences and tagged objects
OnlyTagged(v) ==
  CASE v.t = "function" -> FALSE
    [] v.t = "arr" -> \A i \in DOMAIN v.a : OnlyTagged(v.a[i])
    [] v.t = "obj" ->
         HasSerializerType(v) /\ \A k \in DOMAIN v.o : OnlyTagged(v.o[k])
    [] OTHER -> TRUE

\* C19: for a tagged object x of scalars, sequences, nested tagged objects
\* and enumerations, serializeXml(buildObject(x)) is written without an
\* exception and deserializeXml of it gives buildObject(x), up to the
\* serializerType tag and the keys holding null
C19_XmlRoundTrip ==
  (HasSerializerType(swiz.x) /\ OnlyTagged(swiz.x)) =>
    /\ swiz.xml # Pending => ~swiz.xml.throw
    /\ swiz.parsed # Pending =>
         /\ ~swiz.parsed.throw
         /\ Strip(swiz.parsed.value) = Strip(swiz.built.value)

\* the fields of a tagged object x whose source property is a function
DeferredFields(x) ==
  IF HasSerializerType(x) /\ DefOf(x.getSerializerType) # NullV
  THEN LET fields == DefOf(x.getSerializerType).fields
       IN  {fields[i].name : i \in {j \in DOMAIN fields :
                                     Get(x, SrcOf(fields[j])).t = "function"}}
  ELSE {}

\* C20: for a structure x without a function, buildObjectSync(x) returns the
\* structure buildObject(x) delivers; for a tagged x, buildObjectSync returns
\* an object whose value is undefined at every function-valued field
C20_SyncSameAsAsync ==
  (swiz.built # Pending /\ swiz.sync # Pending) =>
    /\ NoDeferred(swiz.x) =>
         /\ ~swiz.sync.throw
         /\ swiz.sync.value = swiz.built.value
    /\ \A f \in DeferredFields(swiz.x) :
         /\ ~swiz.sync.throw
         /\ Get(swiz.sync.value, f) = Undef

\* the step events of numItems steps
NumItemsStepEvents ==
  {i \in DOMAIN log : log[i].ev = "step" /\ log[i].name = "numItems"}

\* the chain of the one field of the schema holds a numItems step and neither
\* an isArray nor an isHash step, and the input gives the field a container
UnsizedContainerCheck ==
  /\ Len(schema) = 1
  /\ schema[1].val.kind = "chain"
  /\ LET names == {schema[1].val.chain.validators[i].name :
                     i \in DOMAIN schema[1].val.chain.validators}
     IN  "numItems" \in names /\ names \cap ContainerSteps = {}
  /\ Get(Obj(obj), schema[1].key).t \in {"arr", "obj"}

\* C30: a numItems step hands the value it is given to the next step, or to
\* the callback of the chain, unchanged; a check of a container against a
\* chain with a numItems step and no isArray or isHash step ends with the
\* chain accepting the container, whatever its size
C30_NumItemsStepPassesThrough ==
  /\ \A i \in NumItemsStepEvents :
        i < Len(log) =>
          \/ log[i + 1].ev = "step" /\ log[i + 1].value = log[i].value
          \/ log[i + 1].ev = "chain" /\ log[i + 1].res = Ok(log[i].value)
  /\ (UnsizedContainerCheck /\ pc = "done") =>
        \E i \in DOMAIN log :
          /\ log[i].ev = "chain"
          /\ log[i].res = Ok(Get(Obj(obj), schema[1].key))

\* a check of an array of two members against a chain whose only step is
\* numItems(1, 1) has ended with the array accepted
C30_Witness ==
  /\ UnsizedContainerCheck
  /\ pc = "done"
  /\ schema[1].val.chain.numItemsValidator = [min |-> Num(1), max |-> Num(1)]
  /\ Len(schema[1].val.chain.validators) = 1
  /\ Get(Obj(obj), schema[1].key).t = "arr"
  /\ Len(Get(Obj(obj), schema[1].key).a) = 2
  /\ NumItemsStepEvents # {}
  /\ result.kind = "callback"
  /\ \E i \in DOMAIN log : log[i].ev = "chain" /\ log[i].res.ok

EnumKeys == {EnumMap[i].k : i \in DOMAIN EnumMap}

EnumValueOf(k) == EnumMap[CHOOSE i \in DOMAIN EnumMap : EnumMap[i].k = k].v

\* the step events of enumerated steps
EnumStepEvents ==
  {i \in DOMAIN log : log[i].ev = "step" /\ log[i].name = "enumerated"}

\* an enumerated step rejects every value that is not a key of the map, the
\* mapped integers too, with a message that lists all the keys
EnumRejectsOthers ==
  \A i \in EnumStepEvents :
    (i < Len(log)
       /\ ~(log[i].value.t = "str" /\ log[i].value.s \in EnumKeys)) =>
      /\ log[i + 1].ev = "chain"
      /\ ~log[i + 1].res.ok
      /\ log[i + 1].res.msg = "Invalid value '" \o StringOf(log[i].value)
                                \o "'. Should be one of (inactive, active)."

\* an enumerated step replaces a key of the map by the integer mapped to it,
\* and buildObject renders that integer in an enumerated field as the key
EnumInverse ==
  /\ \A i \in EnumStepEvents :
        (i < Len(log) /\ log[i].value.t = "str" /\ log[i].value.s \in EnumKeys)
          => /\ log[i + 1].ev = "chain"
             /\ log[i + 1].res = Ok(EnumValueOf(log[i].value.s))
  /\ (swiz.built # Pending /\ Get(Obj(obj), "state").t = "str") =>
        /\ swiz.built.err = NullV
        /\ Get(swiz.built.value, "state") = Get(Obj(obj), "state")

AddedName(bc) == IF bc.m = "custom" THEN bc.name ELSE bc.m

\* the builder calls of the log that added the only step of their name
AddedOnce ==
  {k \in DOMAIN log :
     \A j \in DOMAIN log : AddedName(log[j]) = AddedName(log[k]) => j = k}

\* the step is the one that the builder call added
IsStepOf(step, bc) ==
  /\ step # NullV
  /\ IF bc.m = "custom"
     THEN "custom" \in DOMAIN step /\ step.custom = bc.name
     ELSE step.name = bc.m

\* the steps of the chain have pairwise distinct positions
DistinctPositions ==
  \A i, j \in DOMAIN BuiltChain.validators :
     i # j => BuiltChain.validators[i].pos # BuiltChain.validators[j].pos

\* C25: after any sequence of appends on a fresh chain, the position of a
\* step found by its name is the number of steps added before it, the
\* positions of the steps are pairwise distinct, and getValidatorAtPos(p)
\* is the step added p-th, or null when no step was added p-th
C25_PositionIsInsertionOrdinal ==
  /\ \A k \in AddedOnce :
        getValidatorPos(BuiltChain, AddedName(log[k])) = k - 1
  /\ DistinctPositions
  /\ \A p \in 0..MaxBuildOps :
        IF p < Len(log)
        THEN IsStepOf(getValidatorAtPos(BuiltChain, p), log[p + 1])
        ELSE getValidatorAtPos(BuiltChain, p) = NullV

\* the same holds of the chains built without custom steps
BuiltinPositionIsInsertionOrdinal ==
  (\A k \in DOMAIN log : log[k].m # "custom")
    => C25_PositionIsInsertionOrdinal

\* the type of the tagged object is not registered
UnknownType(v) == HasSerializerType(v) /\ DefOf(v.getSerializerType) = NullV

RECURSIVE HoldsUnknownType(_)
\* the structure holds, at some depth, a tagged object of a type that is not
\* registered: as itself, as a member, as the value of a property, or as
\* the value that a function delivers
HoldsUnknownType(v) ==
  CASE v.t = "function" -> v.err = NullV /\ HoldsUnknownType(v.value)
    [] v.t = "arr" -> \E i \in DOMAIN v.a : HoldsUnknownType(v.a[i])
    [] v.t = "obj" ->
         UnknownType(v) \/ \E k \in DOMAIN v.o : HoldsUnknownType(v.o[k])
    [] OTHER -> FALSE

RECURSIVE ReachesUnknownType(_)
\* the same, where of a tagged object of a registered type only the
\* properties count that its definition names as the source of a field which
\* is not filtered out and whose value is not a value of its enumeration
ReachesUnknownType(v) ==
  CASE v.t = "function" -> v.err = NullV /\ ReachesUnknownType(v.value)
    [] v.t = "arr" -> \E i \in DOMAIN v.a : ReachesUnknownType(v.a[i])
    [] UnknownType(v) -> TRUE
    [] HasSerializerType(v) /\ ~UnknownType(v) ->
         LET fields == DefOf(v.getSerializerType).fields
         IN  \E i \in DOMAIN fields :
                /\ ~Filtered(fields[i])
                /\ EnumKey(fields[i], Get(v, SrcOf(fields[i]))) = NULL
                /\ ReachesUnknownType(Get(v, SrcOf(fields[i])))
    [] v.t = "obj" /\ ~HasSerializerType(v) ->
         \E k \in DOMAIN v.o : ReachesUnknownType(v.o[k])
    [] OTHER -> FALSE

\* the callback was given an error and nothing else
OnlyError(res) == "err" \in DOMAIN res /\ res.err # NullV /\ res.value = Undef

\* C21: when the structure holds, at any depth, a tagged object of a type
\* that is not registered, the callback of buildObject is given an error,
\* and the callback of serialize is given the error and no text, in JSON
\* mode and in XML mode
C21_UnknownTypeIsError ==
  HoldsUnknownType(swiz.x)
    => /\ swiz.built # Pending => swiz.built.err # NullV
       /\ swiz.out # Pending => OnlyError(swiz.out.res)

\* C21 amended: the same for the objects that buildObject reaches
C21_ReachedUnknownTypeIsError ==
  ReachesUnknownType(swiz.x)
    => /\ swiz.built # Pending => swiz.built.err # NullV
       /\ swiz.out # Pending => OnlyError(swiz.out.res)

\* buildObject and serialize in XML mode have answered for a Node whose
\* NodeOpts holds the object of the unregistered type, two levels down
C21_Witness ==
  /\ HasSerializerType(swiz.x)
  /\ ~UnknownType(swiz.x)
  /\ ReachesUnknownType(swiz.x)
  /\ ~UnknownType(Get(swiz.x, "options"))
  /\ ReachesUnknownType(Get(swiz.x, "options"))
  /\ swiz.built # Pending
  /\ swiz.out # Pending
  /\ swiz.out.mode = SERIALIZATION_XML
  /\ OnlyError(swiz.out.res)

\* the call of deserialize that was made cannot give a structure: the mode
\* is none, the text is not of the syntax of the mode, or the XML document
\* has an element that no definition goes by or a child that the definition
\* does not name
DeserializeFails ==
  CASE swiz.back.mode = SERIALIZATION_JSON -> swiz.raw.syntax # "json"
    [] swiz.back.mode = SERIALIZATION_XML ->
         swiz.raw.syntax # "xml" \/ _deserializeXml(swiz.raw.doc).throw
    [] OTHER -> TRUE

\* C22: deserialize never throws; a text that is not well-formed JSON or
\* XML, an XML element without a definition, an unknown XML child tag and an
\* unrecognized mode each give callback(err) without a structure
C22_DeserializeFailsThroughCallback ==
  swiz.back # Pending
    => /\ "err" \in DOMAIN swiz.back.res
       /\ DeserializeFails => OnlyError(swiz.back.res)

\* in JSON mode and with an unrecognized mode the failures do go to the
\* callback
JsonFailsThroughCallback ==
  (swiz.back # Pending /\ swiz.back.mode # SERIALIZATION_XML)
    => C22_DeserializeFailsThroughCallback

OnlyContainerAdded ==
  /\ \A i \in DOMAIN swiz.defs :
        \/ swiz.defs[i].key = "_paginationContainer"
        \/ i \in DOMAIN swiz'.defs /\ swiz'.defs[i] = swiz.defs[i]
  /\ \A i \in DOMAIN swiz'.defs :
        \/ swiz'.defs[i].key = "_paginationContainer"
        \/ i \in DOMAIN swiz.defs

CompiledFields == swiz.defs[1].def.fields

\* the schema that the first call of defToValve returned, as it is now: the
\* chain of a field with a val is the chain object of the definition
FirstSchemaNow ==
  [j \in DOMAIN log[1] |->
     IF CompiledFields[j].val # NullV THEN CompiledFields[j].val ELSE log[1][j]]

\* the values that the chains of two schemas are compared on
CompileValues == {Str("active"), Str("x"), Str("1"), Num(1), NullV}

\* two schemas accept and clean every input identically
SameBehaviour(v, w) ==
  /\ DOMAIN v = DOMAIN w
  /\ \A j \in DOMAIN v :
        /\ v[j].target = w[j].target
        /\ v[j].isOptional = w[j].isOptional
        /\ \A value \in CompileValues :
              RunSteps(v[j].validators, value).res
                = RunSteps(w[j].validators, value).res

\* the chains given as val have the steps and the rename target they had
ValChainsKept ==
  \A j \in DOMAIN CompiledFields :
     CompiledFields[j].val # NullV
       => /\ CompiledFields'[j].val.validators = CompiledFields[j].val.validators
          /\ CompiledFields'[j].val.target = CompiledFields[j].val.target

\* C26: a second call of defToValve on the same definitions yields a schema
\* that accepts and cleans every input as the schema of the first call does,
\* and a chain given as val in a field definition has the same steps and the
\* same rename target after a call of defToValve as before it
C26_CompilationKeepsChains ==
  [][(pc = "compile" /\ calls' = calls + 1)
       => /\ ValChainsKept
          /\ log # << >> => SameBehaviour(FirstSchemaNow', schema')]_vars

\* a field has a chain as val and an enumeration or a src with it
ValCompiled ==
  \E j \in DOMAIN CompiledFields :
     /\ CompiledFields[j].val # NullV
     /\ ~CompiledFields[j].ignorePublic
     /\ CompiledFields[j].enumerated # << >> \/ CompiledFields[j].src # NULL

\* for the definitions without such a field the chains are kept, and every
\* call returns a schema equal to the one of the call before
PlainCompilationKeepsChains ==
  [][(pc = "compile" /\ calls' = calls + 1 /\ ~ValCompiled)
       => /\ ValChainsKept
          /\ log # << >> => schema' = schema]_vars

\* the schema that served requests after the first call of defToValve does
\* not behave as it did: the second call has changed its chains
ServingSchemaChanged ==
  Len(log) > 1 /\ ~SameBehaviour(log[1], FirstSchemaNow)

\* the value denotes an integer (a number, or the decimal string of one)
\* that is a port
DenotesPort(v) ==
  \/ v.t = "num" /\ v.n \in 1..65535
  \/ v.t = "str" /\ v.s \in DOMAIN IntOfStr /\ IntOfStr[v.s] \in 1..65535

\* the integer that the value denotes
PortOf(v) == IF v.t = "num" THEN v ELSE Num(IntOfStr[v.s])

\* an isPort step accepts the values that denote a port, yields the
\* integer, and rejects every other value
IsPortChecksRange ==
  \A i \in DOMAIN log :
     (log[i].ev = "step" /\ log[i].name = "isPort" /\ i < Len(log)) =>
       /\ log[i + 1].ev = "chain"
       /\ IF DenotesPort(log[i].value)
          THEN log[i + 1].res = Ok(PortOf(log[i].value))
          ELSE ~log[i + 1].res.ok

\* an isAddressPair step accepts ip:port only for a port part that denotes
\* a port, and yields the normalized address, a colon and the integer
IsAddressPairChecksRange ==
  \A i \in DOMAIN log :
     (/\ log[i].ev = "step" /\ log[i].name = "isAddressPair" /\ i < Len(log)
      /\ log[i].value.s \in DOMAIN SplitPair
      /\ SplitPair[log[i].value.s].ip \in DOMAIN NormalIP) =>
       LET part == SplitPair[log[i].value.s]
       IN  /\ log[i + 1].ev = "chain"
           /\ IF DenotesPort(Str(part.port))
              THEN log[i + 1].res
                     = Ok(Str(NormalIP[part.ip] \o ":"
                              \o ToString(IntOfStr[part.port])))
              ELSE ~log[i + 1].res.ok

\* C27: isPort and the port part of isAddressPair accept a value only if it
\* denotes an integer in 1..65535, reject every value below 1, above 65535
\* or not a number, and yield the integer (isAddressPair: normalizedIP:port)
C27_PortInRange == IsPortChecksRange /\ IsAddressPairChecksRange

\* the value is a number or begins with one
BeginsWithNumber(v) ==
  v.t = "num" \/ (v.t = "str" /\ v.s \in DOMAIN IntOfStr \cup DOMAIN IntPrefix)

\* for the values that are numbers or begin with one, isPort rejects what is
\* below 1 or above 65535 and yields the integer otherwise
NumbersInRange ==
  \A i \in DOMAIN log :
     (/\ log[i].ev = "step" /\ log[i].name = "isPort" /\ i < Len(log)
      /\ BeginsWithNumber(log[i].value)) =>
       /\ log[i + 1].ev = "chain"
       /\ IF parseInt(log[i].value).n \in 1..65535
          THEN log[i + 1].res = Ok(parseInt(log[i].value))
          ELSE log[i + 1].res = Err("Value out of range [1,65535]")

\* the chain holds a step that never invokes its continuation, of its own or
\* in the chain of its members
ChainNeverCallsBack(c) ==
  \E i \in DOMAIN c.validators :
     LET step == c.validators[i]
     IN  \/ step.name = "never"
         \/ /\ "chain" \in DOMAIN step
            /\ \E j \in DOMAIN step.chain.validators :
                  step.chain.validators[j].name = "never"

RECURSIVE NeverCallsBack(_)
\* some chain of the schema holds a step that never invokes its continuation
NeverCallsBack(fields) ==
  \E i \in DOMAIN fields :
     IF fields[i].val.kind = "chain"
     THEN ChainNeverCallsBack(fields[i].val.chain)
     ELSE NeverCallsBack(fields[i].val.fields)

\* the callback of check has been invoked
Called == pc = "done" /\ result.kind = "callback"

\* a step that never invokes its continuation has been invoked: as a step of
\* the chain being run, or in the check of a member of an array
Hung ==
  \/ /\ pc = "chain"
     /\ stepIdx <= Len(CurNode.chain.validators)
     /\ CurStep.name = "never"
  \/ /\ pc = "map"
     /\ \E i \in inner.pending :
           RunSteps(CurStep.chain.validators, memo.a[i]).res = Never

\* when every step and the final validator call back, a check that was
\* called eventually invokes its callback
EveryCheckCallsBack == (~NeverCallsBack(schema) /\ pc # "idle") ~> Called

\* the callback of a check is invoked at most once
CalledOnce == [][Called => (Called' /\ result' = result)]_vars

\* once a step that never calls back was invoked, the callback of the check
\* is never invoked
HungNeverCallsBack == [](Hung => [](~Called))

\* C28: if every step and the final validator call back, every check
\* eventually invokes its callback, exactly once, also when several members
\* or nested checks fail; if a step never calls back, the callback of the
\* check is never invoked
C28_CallbackIffStepsCallBack ==
  EveryCheckCallsBack /\ CalledOnce /\ HungNeverCallsBack

\* a check that was called invokes its callback or throws, when every step
\* and the final validator call back
CallsBackOrThrows ==
  (~NeverCallsBack(schema) /\ pc # "idle") ~> (Called \/ pc = "thrown")

\* a step of the chain of a field that never calls back leaves the check
\* without a callback
HungStepNeverCallsBack ==
  []((/\ pc = "chain"
      /\ stepIdx <= Len(CurNode.chain.validators)
      /\ CurStep.name = "never") => [](~Called))

\* a member of an array hangs in its check and the callback of the check is
\* invoked with the error of another member
CalledDespiteHungMember ==
  /\ Called
  /\ result.err # NoErr
  /\ schema = <<Field("a", ChainNode(isArray(Chain, never(isInt(Chain)))))>>
  /\ obj.o["a"].t = "array"
  /\ \E i \in DOMAIN obj.o["a"].a :
        RunSteps(schema[1].val.chain.validators[1].chain.validators,
                 obj.o["a"].a[i]).res = Never

RECURSIVE DeferredOf(_)
\* the deferred calls of a structure, the ones their values hold included
DeferredOf(v) ==
  CASE v.t = "function" ->
         (IF IsDeferred(v) THEN {v} ELSE {}) \cup DeferredOf(v.value)
    [] v.t = "arr" -> UNION {DeferredOf(v.a[i]) : i \in DOMAIN v.a}
    [] v.t = "obj" -> UNION {DeferredOf(v.o[k]) : k \in DOMAIN v.o}
    [] OTHER -> {}

\* the error a deferred call ends in: its own, or the one of the value it
\* yields when that is an object of a type that is not registered
FailureOf(d) ==
  IF d.err # NullV THEN d.err
  ELSE IF HasSerializerType(d.value) /\ DefOf(d.value.getSerializerType) = NullV
       THEN Str("No definition for this type; no way to serialize "
                \o d.value.getSerializerType)
       ELSE NullV

\* the invocations of the callback of buildObject
BuiltEvents == {i \in DOMAIN log : log[i].ev = "built"}

\* the deferred calls that have completed
Completed(order) == {order[i] : i \in DOMAIN order}

\* the callback is invoked at most once, and once when no deferred call is
\* in flight any more
BuiltOnce ==
  /\ Cardinality(BuiltEvents) <= 1
  /\ (/\ swiz.built # Pending
      /\ Progress(swiz.x, swiz.built.order, 0).started
           \subseteq Completed(swiz.built.order)) =>
       Cardinality(BuiltEvents) = 1

\* on success every deferred call that was invoked had completed, and the
\* structure is the one built when every property calls back at once
BuiltAfterAll ==
  \A i \in BuiltEvents :
     log[i].err = NullV =>
       /\ Progress(swiz.x, log[i].after, 0).started
            \subseteq Completed(log[i].after)
       /\ {d.id : d \in {e \in DeferredOf(swiz.x) : FailureOf(e) # NullV}}
            \cap Completed(log[i].after) = {}
       /\ _buildObject(swiz.x) = Delivered(NullV, log[i].value)

\* an error delivered is the one of the deferred call whose completion
\* brought the callback about, the first one to fail
BuiltWithFirstError ==
  \A i \in BuiltEvents :
     (log[i].err # NullV /\ log[i].after # << >>) =>
       LET after == log[i].after
       IN  \E d \in DeferredOf(swiz.x) :
              /\ d.id = after[Len(after)]
              /\ FailureOf(d) = log[i].err
              /\ \A e \in DeferredOf(swiz.x) :
                    (e.id \in Completed(after) /\ e.id # d.id) =>
                      FailureOf(e) = NullV

\* C29: buildObject invokes its callback exactly once; on success after
\* every deferred field has completed, with a structure that does not depend
\* on the order of the completions; on failure with the error of one of the
\* deferred fields that failed
C29_BuildObjectCallsBackOnce ==
  BuiltOnce /\ BuiltAfterAll /\ BuiltWithFirstError

\* the callback was invoked with a structure after the members of an array
\* had completed last member first, among three deferred calls or more
C29_Witness ==
  \E i \in BuiltEvents :
     /\ log[i].err = NullV
     /\ Len(log[i].after) >= 3
     /\ \E m, n \in DOMAIN log[i].after :
           m < n /\ log[i].after[m] = "j" /\ log[i].after[n] = "i"

\* two deferred fields have failed and the callback was invoked
SeveralFailed ==
  /\ BuiltEvents # {}
  /\ Cardinality({d \in DeferredOf(swiz.x) :
                    d.err # NullV /\ d.id \in Completed(swiz.built.order)}) >= 2

================================================================================
